---- MODULE Spec2Model ----
(***************************************************************************)
(* Media-playlist assembler and validator of hls_m3u8                      *)
(* (src/src/media_playlist.rs).  One parse call is modelled line by line:  *)
(* every arm of the `match` in parse_media_playlist is one action, and the *)
(* code after the loop (dangling-segment check, builder.segments, build)   *)
(* is the action EndOfInput.  The builder setters and build() give the     *)
(* direct-construction path.                                               *)
(***************************************************************************)
EXTENDS Integers, Sequences, FiniteSets, TLC

VARIABLES
    pc,                     \* "builder" | "parsing" | "returned_in_loop" |
                            \* "returned_after_loop" | "built"
    builder,                \* MediaPlaylistBuilder: every field an Option
    lines,                  \* the classified lines consumed so far (i = Len(lines))
    segment,                \* pending MediaSegmentBuilder
    segments,               \* finalized segments of this parse call
    has_partial_segment,
    has_discontinuity_tag,
    available_key_tags,
    result,                 \* None until the call returns, then Some(Ok | Err)
    entry,                  \* history: the builder as the current parse call got it
    media                   \* an EXT-X-MEDIA tag under construction: the
                            \* ExtXMediaBuilder, the attribute list from_str
                            \* was given, what build or from_str returned, and
                            \* what required_version and to_string answered

vars == <<pc, builder, lines, segment, segments, has_partial_segment,
          has_discontinuity_tag, available_key_tags, result, entry, media>>

playlist == <<pc, builder, lines, segment, segments, has_partial_segment,
              has_discontinuity_tag, available_key_tags, result, entry>>

locals == <<segment, segments, has_partial_segment, has_discontinuity_tag,
            available_key_tags>>

-----------------------------------------------------------------------------
(* Option<T>: None is the empty sequence, Some(x) the one-element sequence. *)
None == <<>>
Some(x) == <<x>>
IsSome(o) == o /= <<>>
IsNone(o) == o = <<>>
Unwrap(o) == o[1]

(* std::time::Duration: whole seconds and a sub-second part in nanoseconds. *)
HalfSecondNanos == 500000000

Duration(s, n) == [secs |-> s, nanos |-> n]
from_secs(s) == Duration(s, 0)

DurationAdd(a, b) ==
    LET n == a.nanos + b.nanos
    IN  IF n >= 2 * HalfSecondNanos
        THEN Duration(a.secs + b.secs + 1, n - 2 * HalfSecondNanos)
        ELSE Duration(a.secs + b.secs, n)

DurationGt(a, b) ==
    \/ a.secs > b.secs
    \/ (a.secs = b.secs /\ a.nanos > b.nanos)

(* Result values.  An error is named by the constructor that made it       *)
(* (Error::invalid_input, Error::custom, Error::unexpected_tag,            *)
(* Error::builder_error); `cause` is what a builder error wraps.           *)
Ok(v) == [ok |-> TRUE, kind |-> "", cause |-> "", value |-> Some(v)]
Err(kind, cause) == [ok |-> FALSE, kind |-> kind, cause |-> cause, value |-> None]

invalid_input == Err("invalid_input", "")
custom == Err("custom", "")
unexpected_tag(name) == Err("unexpected_tag", name)
builder_error(e) == Err("builder_error", e.cause)

-----------------------------------------------------------------------------
(* MediaPlaylistBuilder::default(): every field unset. *)
EmptyBuilder ==
    [target_duration_tag |-> None,
     media_sequence_tag |-> None,
     discontinuity_sequence_tag |-> None,
     playlist_type_tag |-> None,
     i_frames_only_tag |-> None,
     independent_segments_tag |-> None,
     start_tag |-> None,
     end_list_tag |-> None,
     segments |-> None,
     allowable_excess_duration |-> None]

(* MediaSegment::builder(): every field unset. *)
EmptySegment ==
    [keys |-> None,
     map_tag |-> None,
     byte_range_tag |-> None,
     date_range_tag |-> None,
     discontinuity_tag |-> None,
     program_date_time_tag |-> None,
     inf_tag |-> None,
     uri |-> None]

(* MediaSegmentBuilder::build(): the duration tag and the URI are           *)
(* mandatory, the key list defaults to empty, the rest stays optional.      *)
SegmentBuild(sb) ==
    IF IsNone(sb.inf_tag) \/ IsNone(sb.uri)
    THEN Err("builder_error", "uninitialized_field")
    ELSE Ok([keys |-> IF IsSome(sb.keys) THEN Unwrap(sb.keys) ELSE <<>>,
             map_tag |-> sb.map_tag,
             byte_range_tag |-> sb.byte_range_tag,
             date_range_tag |-> sb.date_range_tag,
             discontinuity_tag |-> sb.discontinuity_tag,
             program_date_time_tag |-> sb.program_date_time_tag,
             inf_tag |-> Unwrap(sb.inf_tag),
             uri |-> Unwrap(sb.uri)])

-----------------------------------------------------------------------------
(* validate_media_segments, the duration check. *)

(* Faulty variant: the sub-second part is dropped instead of rounded. *)
rounded_segment_duration_truncating(segment_duration) ==
    from_secs(segment_duration.secs)

rounded_segment_duration(segment_duration) ==
    IF segment_duration.nanos < HalfSecondNanos
    THEN from_secs(segment_duration.secs)
    ELSE from_secs(segment_duration.secs + 1)

(* Faulty variant: the tolerance is taken off the target duration. *)
max_segment_duration_shrinking(allowable_excess_duration, target_duration) ==
    IF IsSome(allowable_excess_duration)
    THEN IF DurationGt(target_duration, Unwrap(allowable_excess_duration))
         THEN from_secs(target_duration.secs - Unwrap(allowable_excess_duration).secs)
         ELSE from_secs(0)
    ELSE target_duration

max_segment_duration(allowable_excess_duration, target_duration) ==
    IF IsSome(allowable_excess_duration)
    THEN DurationAdd(target_duration, Unwrap(allowable_excess_duration))
    ELSE target_duration

(* Faulty variant: the duration is compared as it is, without rounding. *)
too_large_segment_duration_unrounded(s, allowable_excess_duration, target_duration) ==
    DurationGt(s.inf_tag,
               max_segment_duration(allowable_excess_duration, target_duration))

too_large_segment_duration(s, allowable_excess_duration, target_duration) ==
    DurationGt(rounded_segment_duration(s.inf_tag),
               max_segment_duration(allowable_excess_duration, target_duration))

(* Faulty variant: an open-ended range is accepted after any earlier range, *)
(* whatever its URI.                                                        *)
byte_range_check_ignoring_uri(s, last_range_uri) ==
    IF IsSome(s.byte_range_tag)
    THEN IF IsNone(Unwrap(s.byte_range_tag).start)
         THEN [err |-> IsNone(last_range_uri), last |-> last_range_uri]
         ELSE [err |-> FALSE, last |-> Some(s.uri)]
    ELSE [err |-> FALSE, last |-> None]

(* Faulty variant: an accepted open-ended range forgets the remembered URI. *)
byte_range_check_forgetting_after_continuation(s, last_range_uri) ==
    IF IsSome(s.byte_range_tag)
    THEN IF IsNone(Unwrap(s.byte_range_tag).start)
         THEN IF IsNone(last_range_uri)
              THEN [err |-> TRUE, last |-> last_range_uri]
              ELSE IF Unwrap(last_range_uri) /= s.uri
                   THEN [err |-> TRUE, last |-> last_range_uri]
                   ELSE [err |-> FALSE, last |-> None]
         ELSE [err |-> FALSE, last |-> Some(s.uri)]
    ELSE [err |-> FALSE, last |-> None]

(* validate_media_segments, the byte-range check of one segment: the error  *)
(* it raises (if any) and the next value of last_range_uri.                 *)
byte_range_check(s, last_range_uri) ==
    IF IsSome(s.byte_range_tag)
    THEN IF IsNone(Unwrap(s.byte_range_tag).start)
         THEN IF IsNone(last_range_uri)
              THEN [err |-> TRUE, last |-> last_range_uri]
              ELSE IF Unwrap(last_range_uri) /= s.uri
                   THEN [err |-> TRUE, last |-> last_range_uri]
                   ELSE [err |-> FALSE, last |-> last_range_uri]
         ELSE [err |-> FALSE, last |-> Some(s.uri)]
    ELSE [err |-> FALSE, last |-> None]

(* The loop of validate_media_segments from segment k on: Ok(()) or the     *)
(* first error.                                                             *)
RECURSIVE validate_loop(_, _, _, _, _)
validate_loop(segs, k, last_range_uri, allowable_excess_duration, target_duration) ==
    IF k > Len(segs)
    THEN Ok(<<>>)
    ELSE IF too_large_segment_duration(segs[k], allowable_excess_duration, target_duration)
         THEN custom
         ELSE LET r == byte_range_check(segs[k], last_range_uri)
              IN  IF r.err
                  THEN invalid_input
                  ELSE validate_loop(segs, k + 1, r.last, allowable_excess_duration,
                                     target_duration)

validate_media_segments(b, target_duration) ==
    IF IsSome(b.segments)
    THEN validate_loop(Unwrap(b.segments), 1, None, b.allowable_excess_duration,
                       target_duration)
    ELSE Ok(<<>>)

(* Faulty variant: the error of the segment checks is handed on as it is,   *)
(* not as its message.                                                      *)
validate_keeping_error(b) ==
    IF IsSome(b.target_duration_tag)
    THEN validate_media_segments(b, Unwrap(b.target_duration_tag))
    ELSE Ok(<<>>)

(* MediaPlaylistBuilder::validate: the segment checks run only when a       *)
(* target duration is set; the error is turned into its message.            *)
validate(b) ==
    IF IsSome(b.target_duration_tag)
    THEN LET r == validate_media_segments(b, Unwrap(b.target_duration_tag))
         IN  IF r.ok THEN r ELSE Err("validation", r.kind)
    ELSE Ok(<<>>)

(* Faulty variant: a missing target duration defaults to zero seconds. *)
build_defaulting_target_duration(b) ==
    LET v == validate(b)
    IN  IF ~v.ok
        THEN v
        ELSE IF IsNone(b.segments)
             THEN Err("uninitialized_field", "uninitialized_field")
             ELSE Ok([target_duration_tag |->
                          IF IsSome(b.target_duration_tag)
                          THEN Unwrap(b.target_duration_tag)
                          ELSE from_secs(0),
                      media_sequence_tag |-> b.media_sequence_tag,
                      discontinuity_sequence_tag |-> b.discontinuity_sequence_tag,
                      playlist_type_tag |-> b.playlist_type_tag,
                      i_frames_only_tag |-> b.i_frames_only_tag,
                      independent_segments_tag |-> b.independent_segments_tag,
                      start_tag |-> b.start_tag,
                      end_list_tag |-> b.end_list_tag,
                      segments |-> Unwrap(b.segments),
                      allowable_excess_duration |->
                          IF IsSome(b.allowable_excess_duration)
                          THEN Unwrap(b.allowable_excess_duration)
                          ELSE from_secs(0)])

(* The derived MediaPlaylistBuilder::build(): validate first, then every    *)
(* field without a default must be set; defaults fill the rest.             *)
build(b) ==
    LET v == validate(b)
    IN  IF ~v.ok
        THEN v
        ELSE IF IsNone(b.target_duration_tag) \/ IsNone(b.segments)
             THEN Err("uninitialized_field", "uninitialized_field")
             ELSE Ok([target_duration_tag |-> Unwrap(b.target_duration_tag),
                      media_sequence_tag |-> b.media_sequence_tag,
                      discontinuity_sequence_tag |-> b.discontinuity_sequence_tag,
                      playlist_type_tag |-> b.playlist_type_tag,
                      i_frames_only_tag |-> b.i_frames_only_tag,
                      independent_segments_tag |-> b.independent_segments_tag,
                      start_tag |-> b.start_tag,
                      end_list_tag |-> b.end_list_tag,
                      segments |-> Unwrap(b.segments),
                      allowable_excess_duration |->
                          IF IsSome(b.allowable_excess_duration)
                          THEN Unwrap(b.allowable_excess_duration)
                          ELSE from_secs(0)])

-----------------------------------------------------------------------------
(* Classified lines (crate::line::Line): a tag with its decoded value, or a *)
(* URI.  Blank lines and comments never reach the assembler.                *)
Unit == "unit"
TagLine(name, t) == [line |-> "Tag", tag |-> name, v |-> t]
UriLine(uri) == [line |-> "Uri", tag |-> "", v |-> uri]

(* ExtXMediaBuilder::default: the derived builder holds every field of    *)
(* ExtXMedia as an Option, none of them set.                               *)
ExtXMediaBuilder_default ==
    [media_type |-> <<>>, uri |-> <<>>, group_id |-> <<>>, language |-> <<>>,
     assoc_language |-> <<>>, name |-> <<>>, is_default |-> <<>>,
     is_autoselect |-> <<>>, is_forced |-> <<>>, instream_id |-> <<>>,
     characteristics |-> <<>>, channels |-> <<>>]

Init ==
    /\ pc = "builder"
    /\ builder = EmptyBuilder
    /\ lines = <<>>
    /\ segment = EmptySegment
    /\ segments = <<>>
    /\ has_partial_segment = FALSE
    /\ has_discontinuity_tag = FALSE
    /\ available_key_tags = <<>>
    /\ result = None
    /\ entry = EmptyBuilder
    /\ media = [pc |-> "builder", builder |-> ExtXMediaBuilder_default,
                input |-> <<>>, result |-> <<>>, version |-> <<>>,
                text |-> <<>>]

-----------------------------------------------------------------------------
(* The builder before parse or build is called. *)

(* The derived setter of allowable_excess_duration. *)
SetAllowableExcessDuration(value) ==
    /\ pc = "builder"
    /\ builder' = [builder EXCEPT !.allowable_excess_duration = Some(value)]
    /\ UNCHANGED <<pc, lines, locals, result, entry, media>>

(* The derived setter of target_duration_tag. *)
SetTargetDurationTag(t) ==
    /\ pc = "builder"
    /\ builder' = [builder EXCEPT !.target_duration_tag = Some(t)]
    /\ UNCHANGED <<pc, lines, locals, result, entry, media>>

(* Faulty variant: the segment is put in front of the list. *)
push_segment_prepending(b, value) ==
    IF IsSome(b.segments)
    THEN [b EXCEPT !.segments = Some(<<value>> \o Unwrap(b.segments))]
    ELSE [b EXCEPT !.segments = Some(<<value>>)]

(* MediaPlaylistBuilder::push_segment *)
push_segment(b, value) ==
    IF IsSome(b.segments)
    THEN [b EXCEPT !.segments = Some(Append(Unwrap(b.segments), value))]
    ELSE [b EXCEPT !.segments = Some(<<value>>)]

PushSegment(value) ==
    /\ pc = "builder"
    /\ builder' = push_segment(builder, value)
    /\ UNCHANGED <<pc, lines, locals, result, entry, media>>

(* MediaPlaylistBuilder::build called directly. *)
Build ==
    /\ pc = "builder"
    /\ pc' = "built"
    /\ result' = Some(build(builder))
    /\ UNCHANGED <<builder, lines, locals, entry, media>>

(* MediaPlaylistBuilder::parse / FromStr: parse_media_playlist starts with  *)
(* fresh local state.                                                       *)
Parse ==
    /\ pc = "builder"
    /\ pc' = "parsing"
    /\ lines' = <<>>
    /\ segment' = EmptySegment
    /\ segments' = <<>>
    /\ has_partial_segment' = FALSE
    /\ has_discontinuity_tag' = FALSE
    /\ available_key_tags' = <<>>
    /\ entry' = builder
    /\ UNCHANGED <<builder, result, media>>

(* Faulty variant: the second call starts with the segment-in-progress flag *)
(* the first call ended with.                                               *)
ParseAgain_keeping_partial_flag ==
    /\ pc \in {"returned_in_loop", "returned_after_loop"}
    /\ pc' = "parsing"
    /\ lines' = <<>>
    /\ segment' = EmptySegment
    /\ segments' = <<>>
    /\ has_discontinuity_tag' = FALSE
    /\ available_key_tags' = <<>>
    /\ result' = None
    /\ entry' = builder
    /\ UNCHANGED <<builder, has_partial_segment, media>>

(* MediaPlaylistBuilder::parse called again on the same builder, after an   *)
(* earlier call has returned.                                               *)
ParseAgain ==
    /\ pc \in {"returned_in_loop", "returned_after_loop"}
    /\ pc' = "parsing"
    /\ lines' = <<>>
    /\ segment' = EmptySegment
    /\ segments' = <<>>
    /\ has_partial_segment' = FALSE
    /\ has_discontinuity_tag' = FALSE
    /\ available_key_tags' = <<>>
    /\ result' = None
    /\ entry' = builder
    /\ UNCHANGED <<builder, media>>

-----------------------------------------------------------------------------------------------------------------------------------------------------
(* parse_media_playlist.  Its state is the builder it was given, its local  *)
(* variables and, once it has returned, what it returned (ret).  Every arm  *)
(* of the match is an operator from state to state; the actions below       *)
(* apply one arm to the next line of the input, and parse_lines folds the   *)
(* same arms over a whole document.                                         *)
ParseState(b) ==
    [builder |-> b,
     segment |-> EmptySegment,
     segments |-> <<>>,
     has_partial_segment |-> FALSE,
     has_discontinuity_tag |-> FALSE,
     available_key_tags |-> <<>>,
     ret |-> None]

return(P, r) == [P EXCEPT !.ret = Some(r)]

(* Faulty variant: the first tag is not checked. *)
first_tag_unchecked(P, l) == P

(* i == 0 and the line is a tag. *)
first_tag(P, l) ==
    IF l.tag /= "ExtM3u" THEN return(P, custom) ELSE P

(* Faulty variant: a repeated marker is skipped. *)
arm_ExtM3u_skipped(P) == P

arm_ExtM3u(P) == return(P, invalid_input)

(* Faulty variant: a duration already pending is kept. *)
arm_ExtInf_keeping_first(P, t) ==
    [P EXCEPT !.has_partial_segment = TRUE,
              !.segment.inf_tag = IF IsSome(@) THEN @ ELSE Some(t)]

arm_ExtInf(P, t) ==
    [P EXCEPT !.has_partial_segment = TRUE, !.segment.inf_tag = Some(t)]

arm_ExtXByteRange(P, t) ==
    [P EXCEPT !.has_partial_segment = TRUE, !.segment.byte_range_tag = Some(t)]

arm_ExtXDiscontinuity(P) ==
    [P EXCEPT !.has_discontinuity_tag = TRUE,
              !.has_partial_segment = TRUE,
              !.segment.discontinuity_tag = Some(Unit)]

(* The ExtXKey arm's update of available_key_tags. *)
update_available_key_tags(keys, t) ==
    IF keys = <<>>
    THEN [j \in 1..Len(keys) |->
            IF t.key_format = keys[j].key_format THEN t ELSE keys[j]]
    ELSE Append(keys, t)

(* Faulty variant: the key is also put on the segments already finalized. *)
arm_ExtXKey_rekeying_segments(P, t) ==
    [P EXCEPT !.has_partial_segment = TRUE,
              !.available_key_tags = update_available_key_tags(@, t),
              !.segments = [k \in 1..Len(@) |-> [@[k] EXCEPT !.keys = <<t>>]]]

(* Faulty variant: a key tag does not mark a segment as in progress. *)
arm_ExtXKey_without_partial(P, t) ==
    [P EXCEPT !.available_key_tags = update_available_key_tags(@, t)]

arm_ExtXKey(P, t) ==
    [P EXCEPT !.has_partial_segment = TRUE,
              !.available_key_tags = update_available_key_tags(@, t)]

arm_ExtXMap(P, t) ==
    [P EXCEPT !.has_partial_segment = TRUE,
              !.segment.map_tag = Some([t EXCEPT !.keys = P.available_key_tags])]

arm_ExtXProgramDateTime(P, t) ==
    [P EXCEPT !.has_partial_segment = TRUE, !.segment.program_date_time_tag = Some(t)]

arm_ExtXDateRange(P, t) ==
    [P EXCEPT !.has_partial_segment = TRUE, !.segment.date_range_tag = Some(t)]

arm_ExtXTargetDuration(P, t) == [P EXCEPT !.builder.target_duration_tag = Some(t)]

arm_ExtXMediaSequence(P, t) == [P EXCEPT !.builder.media_sequence_tag = Some(t)]

(* Faulty variant: the discontinuity flag is not consulted. *)
discontinuity_sequence_rejected_without_flag(segs, has_discontinuity) ==
    segs = <<>>

(* The two checks of the ExtXDiscontinuitySequence arm. *)
discontinuity_sequence_rejected(segs, has_discontinuity) ==
    segs = <<>> \/ has_discontinuity

arm_ExtXDiscontinuitySequence(P, t) ==
    IF discontinuity_sequence_rejected(P.segments, P.has_discontinuity_tag)
    THEN return(P, invalid_input)
    ELSE [P EXCEPT !.builder.discontinuity_sequence_tag = Some(t)]

(* Faulty variant: the end-list tag is refused while a segment is in        *)
(* progress.                                                                *)
arm_ExtXEndList_refused_inside_segment(P) ==
    IF P.has_partial_segment
    THEN return(P, invalid_input)
    ELSE [P EXCEPT !.builder.end_list_tag = Some(Unit)]

arm_ExtXEndList(P) == [P EXCEPT !.builder.end_list_tag = Some(Unit)]

arm_ExtXPlaylistType(P, t) == [P EXCEPT !.builder.playlist_type_tag = Some(t)]

arm_ExtXIFramesOnly(P) == [P EXCEPT !.builder.i_frames_only_tag = Some(Unit)]

(* ExtXMedia | ExtXStreamInf | ExtXIFrameStreamInf | ExtXSessionData |      *)
(* ExtXSessionKey                                                           *)
MasterTagNames ==
    {"ExtXMedia", "ExtXStreamInf", "ExtXIFrameStreamInf", "ExtXSessionData",
     "ExtXSessionKey"}

(* Faulty variant: a master-playlist tag is skipped like an unknown tag. *)
arm_MasterTag_ignored(P, name) == P

arm_MasterTag(P, name) == return(P, unexpected_tag(name))

arm_ExtXIndependentSegments(P) ==
    [P EXCEPT !.builder.independent_segments_tag = Some(Unit)]

arm_ExtXStart(P, t) == [P EXCEPT !.builder.start_tag = Some(t)]

(* Tag::Unknown(_) | Tag::ExtXVersion(_) *)
IgnoredTagNames == {"Unknown", "ExtXVersion"}

(* Faulty variant: an ignored tag marks a segment as in progress. *)
arm_Ignored_marking_partial(P) == [P EXCEPT !.has_partial_segment = TRUE]

arm_Ignored(P) == P

(* Faulty variant: the finalized segment is put in front of the list. *)
arm_Uri_prepending(P, uri) ==
    LET sb == [P.segment EXCEPT !.uri = Some(uri), !.keys = Some(P.available_key_tags)]
        r == SegmentBuild(sb)
    IN  IF r.ok
        THEN [P EXCEPT !.segments = <<Unwrap(r.value)>> \o @,
                       !.segment = EmptySegment,
                       !.has_partial_segment = FALSE]
        ELSE return(P, builder_error(r))

(* Faulty variant: the pending segment is not reset. *)
arm_Uri_keeping_pending(P, uri) ==
    LET sb == [P.segment EXCEPT !.uri = Some(uri), !.keys = Some(P.available_key_tags)]
        r == SegmentBuild(sb)
    IN  IF r.ok
        THEN [P EXCEPT !.segments = Append(@, Unwrap(r.value)),
                       !.has_partial_segment = FALSE]
        ELSE return(P, builder_error(r))

(* Line::Uri *)
arm_Uri(P, uri) ==
    LET sb == [P.segment EXCEPT !.uri = Some(uri), !.keys = Some(P.available_key_tags)]
        r == SegmentBuild(sb)
    IN  IF r.ok
        THEN [P EXCEPT !.segments = Append(@, Unwrap(r.value)),
                       !.segment = EmptySegment,
                       !.has_partial_segment = FALSE]
        ELSE return(P, builder_error(r))

(* The inner match on the tag. *)
match_tag(P, l) ==
    CASE l.tag = "ExtM3u" -> arm_ExtM3u(P)
      [] l.tag = "ExtInf" -> arm_ExtInf(P, l.v)
      [] l.tag = "ExtXByteRange" -> arm_ExtXByteRange(P, l.v)
      [] l.tag = "ExtXDiscontinuity" -> arm_ExtXDiscontinuity(P)
      [] l.tag = "ExtXKey" -> arm_ExtXKey(P, l.v)
      [] l.tag = "ExtXMap" -> arm_ExtXMap(P, l.v)
      [] l.tag = "ExtXProgramDateTime" -> arm_ExtXProgramDateTime(P, l.v)
      [] l.tag = "ExtXDateRange" -> arm_ExtXDateRange(P, l.v)
      [] l.tag = "ExtXTargetDuration" -> arm_ExtXTargetDuration(P, l.v)
      [] l.tag = "ExtXMediaSequence" -> arm_ExtXMediaSequence(P, l.v)
      [] l.tag = "ExtXDiscontinuitySequence" -> arm_ExtXDiscontinuitySequence(P, l.v)
      [] l.tag = "ExtXEndList" -> arm_ExtXEndList(P)
      [] l.tag = "ExtXPlaylistType" -> arm_ExtXPlaylistType(P, l.v)
      [] l.tag = "ExtXIFramesOnly" -> arm_ExtXIFramesOnly(P)
      [] l.tag \in MasterTagNames -> arm_MasterTag(P, l.tag)
      [] l.tag = "ExtXIndependentSegments" -> arm_ExtXIndependentSegments(P)
      [] l.tag = "ExtXStart" -> arm_ExtXStart(P, l.v)
      [] l.tag \in IgnoredTagNames -> arm_Ignored(P)

(* The body of the loop for line l at index i. *)
match_line(P, i, l) ==
    IF l.line = "Tag"
    THEN IF i = 0 THEN first_tag(P, l) ELSE match_tag(P, l)
    ELSE arm_Uri(P, l.v)

(* Faulty variant: the segments are attached to the playlist after build()  *)
(* has run, so validation never sees them.                                  *)
end_of_input_unvalidated(P) ==
    IF P.has_partial_segment
    THEN return(P, invalid_input)
    ELSE LET b == [P.builder EXCEPT !.segments = Some(P.segments)]
             r == build([b EXCEPT !.segments = Some(<<>>)])
         IN  [P EXCEPT !.builder = b,
                       !.ret = Some(IF r.ok
                                    THEN Ok([Unwrap(r.value) EXCEPT
                                                !.segments = P.segments])
                                    ELSE builder_error(r))]

(* The code after the loop. *)
end_of_input(P) ==
    IF P.has_partial_segment
    THEN return(P, invalid_input)
    ELSE LET b == [P.builder EXCEPT !.segments = Some(P.segments)]
             r == build(b)
         IN  [P EXCEPT !.builder = b,
                       !.ret = Some(IF r.ok THEN r ELSE builder_error(r))]

(* The loop from line i + 1 of ls on, then the code after it. *)
RECURSIVE parse_loop(_, _, _)
parse_loop(P, ls, i) ==
    IF IsSome(P.ret)
    THEN P
    ELSE IF i >= Len(ls)
         THEN end_of_input(P)
         ELSE parse_loop(match_line(P, i, ls[i + 1]), ls, i + 1)

(* parse_media_playlist(input, builder): the state it ends in (the result   *)
(* is ret, and builder is what it leaves in the caller's builder).          *)
parse_media_playlist(ls, b) == parse_loop(ParseState(b), ls, 0)

-----------------------------------------------------------------------------------------------------------------------------------------------------
(* Rendering (impl fmt::Display for MediaPlaylist), as the sequence of the  *)
(* lines written.  A tag is written as the line that parses back to it.     *)

Max(a, b) == IF a >= b THEN a ELSE b

(* ProtocolVersion: V1 .. V7 in their order, as 1 .. 7. *)
V1 == 1

(* The protocol version a tag asks for, from its own fields: a fractional   *)
(* duration needs version 3, a byte range and i-frames-only 4, a map 6,     *)
(* every other tag of the model the lowest.                                 *)
tag_required_version(name, t) ==
    CASE name = "ExtInf" -> IF t.nanos /= 0 THEN 3 ELSE V1
      [] name = "ExtXByteRange" -> 4
      [] name = "ExtXIFramesOnly" -> 4
      [] name = "ExtXMap" -> 6
      [] OTHER -> V1

(* RequiredVersion of an Option: that of the value, the lowest when None. *)
option_required_version(name, o) ==
    IF IsSome(o) THEN tag_required_version(name, Unwrap(o)) ELSE V1

(* required_version![..]: the maximum of the versions listed, the lowest if *)
(* none is listed.                                                          *)
RECURSIVE max_required_version(_, _)
max_required_version(vs, k) ==
    IF k > Len(vs) THEN V1 ELSE Max(vs[k], max_required_version(vs, k + 1))

(* RequiredVersion of a segment: the maximum over its tags. *)
segment_required_version(s) ==
    max_required_version(
        <<max_required_version(
              [j \in 1..Len(s.keys) |-> tag_required_version("ExtXKey", s.keys[j])], 1),
          option_required_version("ExtXMap", s.map_tag),
          option_required_version("ExtXByteRange", s.byte_range_tag),
          option_required_version("ExtXDateRange", s.date_range_tag),
          option_required_version("ExtXDiscontinuity", s.discontinuity_tag),
          option_required_version("ExtXProgramDateTime", s.program_date_time_tag),
          tag_required_version("ExtInf", s.inf_tag)>>, 1)

(* RequiredVersion of a Vec of segments. *)
RECURSIVE segments_required_version(_, _)
segments_required_version(segs, k) ==
    IF k > Len(segs) THEN V1
    ELSE Max(segment_required_version(segs[k]), segments_required_version(segs, k + 1))

(* Faulty variant: the segments are left out of the list. *)
required_version_without_segments(p) ==
    max_required_version(
        <<tag_required_version("ExtXTargetDuration", p.target_duration_tag),
          option_required_version("ExtXMediaSequence", p.media_sequence_tag),
          option_required_version("ExtXDiscontinuitySequence", p.discontinuity_sequence_tag),
          option_required_version("ExtXPlaylistType", p.playlist_type_tag),
          option_required_version("ExtXIFramesOnly", p.i_frames_only_tag),
          option_required_version("ExtXIndependentSegments", p.independent_segments_tag),
          option_required_version("ExtXStart", p.start_tag),
          option_required_version("ExtXEndList", p.end_list_tag)>>, 1)

(* impl RequiredVersion for MediaPlaylist *)
required_version(p) ==
    max_required_version(
        <<tag_required_version("ExtXTargetDuration", p.target_duration_tag),
          option_required_version("ExtXMediaSequence", p.media_sequence_tag),
          option_required_version("ExtXDiscontinuitySequence", p.discontinuity_sequence_tag),
          option_required_version("ExtXPlaylistType", p.playlist_type_tag),
          option_required_version("ExtXIFramesOnly", p.i_frames_only_tag),
          option_required_version("ExtXIndependentSegments", p.independent_segments_tag),
          option_required_version("ExtXStart", p.start_tag),
          option_required_version("ExtXEndList", p.end_list_tag),
          segments_required_version(p.segments, 1)>>, 1)

(* impl RequiredVersion for MediaPlaylistBuilder: every field is an Option. *)
builder_required_version(b) ==
    max_required_version(
        <<option_required_version("ExtXTargetDuration", b.target_duration_tag),
          option_required_version("ExtXMediaSequence", b.media_sequence_tag),
          option_required_version("ExtXDiscontinuitySequence", b.discontinuity_sequence_tag),
          option_required_version("ExtXPlaylistType", b.playlist_type_tag),
          option_required_version("ExtXIFramesOnly", b.i_frames_only_tag),
          option_required_version("ExtXIndependentSegments", b.independent_segments_tag),
          option_required_version("ExtXStart", b.start_tag),
          option_required_version("ExtXEndList", b.end_list_tag),
          IF IsSome(b.segments)
          THEN segments_required_version(Unwrap(b.segments), 1)
          ELSE V1>>, 1)

OptLine(name, o) == IF IsSome(o) THEN <<TagLine(name, Unwrap(o))>> ELSE <<>>

(* impl fmt::Display for MediaSegment: the key tags, then each tag that is  *)
(* set, then the duration tag and the URI.                                  *)
render_segment(s) ==
    [j \in 1..Len(s.keys) |-> TagLine("ExtXKey", s.keys[j])]
    \o (IF IsSome(s.map_tag)
        THEN <<TagLine("ExtXMap", [Unwrap(s.map_tag) EXCEPT !.keys = <<>>])>>
        ELSE <<>>)
    \o OptLine("ExtXByteRange", s.byte_range_tag)
    \o OptLine("ExtXDateRange", s.date_range_tag)
    \o OptLine("ExtXDiscontinuity", s.discontinuity_tag)
    \o OptLine("ExtXProgramDateTime", s.program_date_time_tag)
    \o <<TagLine("ExtInf", s.inf_tag), UriLine(s.uri)>>

RECURSIVE render_segments(_, _)
render_segments(segs, k) ==
    IF k > Len(segs) THEN <<>>
    ELSE render_segment(segs[k]) \o render_segments(segs, k + 1)

(* Faulty variant: the end-list tag is written with the document-level     *)
(* tags, before the segments.                                               *)
render_end_list_before_segments(p) ==
    <<TagLine("ExtM3u", Unit)>>
    \o (IF required_version(p) /= V1
        THEN <<TagLine("ExtXVersion", required_version(p))>>
        ELSE <<>>)
    \o <<TagLine("ExtXTargetDuration", p.target_duration_tag)>>
    \o OptLine("ExtXMediaSequence", p.media_sequence_tag)
    \o OptLine("ExtXDiscontinuitySequence", p.discontinuity_sequence_tag)
    \o OptLine("ExtXPlaylistType", p.playlist_type_tag)
    \o OptLine("ExtXIFramesOnly", p.i_frames_only_tag)
    \o OptLine("ExtXIndependentSegments", p.independent_segments_tag)
    \o OptLine("ExtXStart", p.start_tag)
    \o OptLine("ExtXEndList", p.end_list_tag)
    \o render_segments(p.segments, 1)

(* Faulty variant: the version directive is written whatever the required  *)
(* version is.                                                              *)
render_always_versioned(p) ==
    <<TagLine("ExtM3u", Unit), TagLine("ExtXVersion", required_version(p)),
      TagLine("ExtXTargetDuration", p.target_duration_tag)>>
    \o OptLine("ExtXMediaSequence", p.media_sequence_tag)
    \o OptLine("ExtXDiscontinuitySequence", p.discontinuity_sequence_tag)
    \o OptLine("ExtXPlaylistType", p.playlist_type_tag)
    \o OptLine("ExtXIFramesOnly", p.i_frames_only_tag)
    \o OptLine("ExtXIndependentSegments", p.independent_segments_tag)
    \o OptLine("ExtXStart", p.start_tag)
    \o render_segments(p.segments, 1)
    \o OptLine("ExtXEndList", p.end_list_tag)

render(p) ==
    <<TagLine("ExtM3u", Unit)>>
    \o (IF required_version(p) /= V1
        THEN <<TagLine("ExtXVersion", required_version(p))>>
        ELSE <<>>)
    \o <<TagLine("ExtXTargetDuration", p.target_duration_tag)>>
    \o OptLine("ExtXMediaSequence", p.media_sequence_tag)
    \o OptLine("ExtXDiscontinuitySequence", p.discontinuity_sequence_tag)
    \o OptLine("ExtXPlaylistType", p.playlist_type_tag)
    \o OptLine("ExtXIFramesOnly", p.i_frames_only_tag)
    \o OptLine("ExtXIndependentSegments", p.independent_segments_tag)
    \o OptLine("ExtXStart", p.start_tag)
    \o render_segments(p.segments, 1)
    \o OptLine("ExtXEndList", p.end_list_tag)

-----
(* One iteration of the loop of parse_media_playlist per action. *)

Current ==
    [builder |-> builder,
     segment |-> segment,
     segments |-> segments,
     has_partial_segment |-> has_partial_segment,
     has_discontinuity_tag |-> has_discontinuity_tag,
     available_key_tags |-> available_key_tags,
     ret |-> result]

Becomes(P, returned) ==
    /\ builder' = P.builder
    /\ segment' = P.segment
    /\ segments' = P.segments
    /\ has_partial_segment' = P.has_partial_segment
    /\ has_discontinuity_tag' = P.has_discontinuity_tag
    /\ available_key_tags' = P.available_key_tags
    /\ result' = P.ret
    /\ pc' = IF IsSome(P.ret) THEN returned ELSE pc
    /\ UNCHANGED <<entry, media>>

(* Line l is read and the loop body takes the state to P. *)
Step(l, P) ==
    /\ lines' = Append(lines, l)
    /\ Becomes(P, "returned_in_loop")

FirstTag(l) ==
    /\ pc = "parsing"
    /\ Len(lines) = 0
    /\ l.line = "Tag"
    /\ Step(l, first_tag(Current, l))

InLoop == pc = "parsing" /\ Len(lines) > 0

ExtM3u == InLoop /\ Step(TagLine("ExtM3u", Unit), arm_ExtM3u(Current))

ExtInf(t) == InLoop /\ Step(TagLine("ExtInf", t), arm_ExtInf(Current, t))

ExtXByteRange(t) ==
    InLoop /\ Step(TagLine("ExtXByteRange", t), arm_ExtXByteRange(Current, t))

ExtXDiscontinuity ==
    InLoop /\ Step(TagLine("ExtXDiscontinuity", Unit), arm_ExtXDiscontinuity(Current))

ExtXKey(t) == InLoop /\ Step(TagLine("ExtXKey", t), arm_ExtXKey(Current, t))

ExtXMap(t) == InLoop /\ Step(TagLine("ExtXMap", t), arm_ExtXMap(Current, t))

ExtXProgramDateTime(t) ==
    InLoop /\ Step(TagLine("ExtXProgramDateTime", t), arm_ExtXProgramDateTime(Current, t))

ExtXDateRange(t) ==
    InLoop /\ Step(TagLine("ExtXDateRange", t), arm_ExtXDateRange(Current, t))

ExtXTargetDuration(t) ==
    InLoop /\ Step(TagLine("ExtXTargetDuration", t), arm_ExtXTargetDuration(Current, t))

ExtXMediaSequence(t) ==
    InLoop /\ Step(TagLine("ExtXMediaSequence", t), arm_ExtXMediaSequence(Current, t))

ExtXDiscontinuitySequence(t) ==
    InLoop /\ Step(TagLine("ExtXDiscontinuitySequence", t),
                   arm_ExtXDiscontinuitySequence(Current, t))

ExtXEndList == InLoop /\ Step(TagLine("ExtXEndList", Unit), arm_ExtXEndList(Current))

ExtXPlaylistType(t) ==
    InLoop /\ Step(TagLine("ExtXPlaylistType", t), arm_ExtXPlaylistType(Current, t))

ExtXIFramesOnly ==
    InLoop /\ Step(TagLine("ExtXIFramesOnly", Unit), arm_ExtXIFramesOnly(Current))

MasterTag(name) ==
    /\ InLoop
    /\ name \in MasterTagNames
    /\ Step(TagLine(name, Unit), arm_MasterTag(Current, name))

ExtXIndependentSegments ==
    InLoop /\ Step(TagLine("ExtXIndependentSegments", Unit),
                   arm_ExtXIndependentSegments(Current))

ExtXStart(t) == InLoop /\ Step(TagLine("ExtXStart", t), arm_ExtXStart(Current, t))

IgnoredTag(name, t) ==
    /\ InLoop
    /\ name \in IgnoredTagNames
    /\ Step(TagLine(name, t), arm_Ignored(Current))

(* Line::Uri: also taken for i == 0, which the tag arm alone checks. *)
Uri(uri) ==
    /\ pc = "parsing"
    /\ Step(UriLine(uri), arm_Uri(Current, uri))

(* The input has no further line. *)
EndOfInput ==
    /\ pc = "parsing"
    /\ Becomes(end_of_input(Current), "returned_after_loop")
    /\ UNCHANGED lines

-----
(* Values the inputs are drawn from. *)
M3u == TagLine("ExtM3u", Unit)

More(n) == Len(lines) < n
Pushed(n) == IF IsNone(builder.segments) THEN TRUE ELSE Len(Unwrap(builder.segments)) < n

(* A segment as MediaSegment::builder().inf_tag(d).uri(u).build() makes it, *)
(* with an optional byte range.                                             *)
Segment(d, br, u) ==
    [keys |-> <<>>, map_tag |-> None, byte_range_tag |-> br, date_range_tag |-> None,
     discontinuity_tag |-> None, program_date_time_tag |-> None, inf_tag |-> d,
     uri |-> u]

-----------------------------------------------------------------------------
(* SpecDur: the duration check, through build() and through parse.  The    *)
(* durations are those of too_large_segment_duration_test and the two      *)
(* sides of the half-second boundary.                                       *)
MaxLinesDur == 5
MaxPushedDur == 2

TargetDurations == {from_secs(8), from_secs(10)}
ExcessDurations == {from_secs(0), from_secs(1), from_secs(2), Duration(1, 500000000)}
InfDurations ==
    {Duration(9, 9000000), Duration(9, 509000000), Duration(3, 3000000),
     Duration(9, 499999999), Duration(9, 500000000), Duration(10, 0)}

NextDur ==
    \/ \E e \in ExcessDurations :
          IsNone(builder.allowable_excess_duration) /\ SetAllowableExcessDuration(e)
    \/ \E t \in TargetDurations :
          IsNone(builder.target_duration_tag) /\ SetTargetDurationTag(t)
    \/ \E d \in InfDurations :
          Pushed(MaxPushedDur) /\ PushSegment(Segment(d, None, "a.ts"))
    \/ Build
    \/ IsNone(builder.segments) /\ Parse
    \/ FirstTag(M3u)
    \/ \E t \in TargetDurations : More(MaxLinesDur) /\ ExtXTargetDuration(t)
    \/ \E d \in InfDurations : More(MaxLinesDur) /\ ExtInf(d)
    \/ More(MaxLinesDur) /\ Uri("a.ts")
    \/ EndOfInput

SpecDur == Init /\ [][NextDur]_vars

(* Rounding to the nearest second with ties going up, and the limit        *)
(* T + E, stated arithmetically on whole seconds.                           *)
round_to_second(d) == d.secs + ((d.nanos + 500000000) \div 1000000000)

ExcessOf(b) ==
    IF IsSome(b.allowable_excess_duration)
    THEN Unwrap(b.allowable_excess_duration)
    ELSE from_secs(0)

WithinBound(d, T, E) ==
    round_to_second(d) <= T.secs + E.secs + ((T.nanos + E.nanos) \div 1000000000)

AllWithinBound(b) ==
    \A k \in 1..Len(Unwrap(b.segments)) :
        WithinBound(Unwrap(b.segments)[k].inf_tag, Unwrap(b.target_duration_tag),
                    ExcessOf(b))

(* The call returned from validation: a target duration and a segment list  *)
(* were there to validate (in SpecDur a parse call starts without segments, *)
(* so the list is the one the call itself handed over).                     *)
ValidationReached ==
    /\ pc \in {"returned_after_loop", "built"}
    /\ IsSome(builder.target_duration_tag)
    /\ IsSome(builder.segments)

HasSegmentOfDuration(b, d) ==
    \E k \in 1..Len(Unwrap(b.segments)) : Unwrap(b.segments)[k].inf_tag = d

-----------------------------------------------------------------------------
(* SpecKeys: key propagation.  Documents start with the marker and the     *)
(* target duration and go on with key tags (two formats), map tags,        *)
(* duration tags and URI lines.                                            *)
MaxLinesKeys == 8

Key(format, id) == [key_format |-> format, id |-> id]
KeyTags == {Key("A", "k1"), Key("A", "k2"), Key("B", "k2")}
MapTags == {[uri |-> "init.mp4", keys |-> <<>>]}

NextKeys ==
    \/ Parse
    \/ FirstTag(M3u)
    \/ Len(lines) = 1 /\ ExtXTargetDuration(from_secs(10))
    \/ \E t \in KeyTags : Len(lines) > 1 /\ More(MaxLinesKeys) /\ ExtXKey(t)
    \/ \E t \in MapTags : Len(lines) > 1 /\ More(MaxLinesKeys) /\ ExtXMap(t)
    \/ Len(lines) > 1 /\ More(MaxLinesKeys) /\ ExtInf(Duration(9, 9000000))
    \/ Len(lines) > 1 /\ More(MaxLinesKeys) /\ Uri("a.ts")
    \/ EndOfInput

SpecKeys == Init /\ [][NextKeys]_vars

Range(f) == {f[x] : x \in DOMAIN f}

(* Equality of documents, line by line (the kind of a line decides the type *)
(* of its value).                                                           *)
SameLine(a, b) == a.line = b.line /\ a.tag = b.tag /\ a.v = b.v
SameLines(ls, ms) ==
    Len(ls) = Len(ms) /\ \A i \in 1..Len(ls) : SameLine(ls[i], ms[i])

IsKeyLine(l) == l.line = "Tag" /\ l.tag = "ExtXKey"
IsTag(l, name) == l.line = "Tag" /\ l.tag = name
IsUri(l) == l.line = "Uri"

(* The position in ls of the k-th URI line (0 if there is none). *)
RECURSIVE UriPosition(_, _, _)
UriPosition(ls, k, from) ==
    IF from > Len(ls) THEN 0
    ELSE IF IsUri(ls[from])
         THEN IF k = 1 THEN from ELSE UriPosition(ls, k - 1, from + 1)
         ELSE UriPosition(ls, k, from + 1)

(* The keys active before line n: every key tag on an earlier line that no  *)
(* later key tag of the same format (still before line n) has superseded.   *)
ActiveKeys(ls, n) ==
    {ls[i].v : i \in {i \in 1..(n - 1) :
        /\ IsKeyLine(ls[i])
        /\ \A j \in (i + 1)..(n - 1) :
              ~(IsKeyLine(ls[j]) /\ ls[j].v.key_format = ls[i].v.key_format)}}

\* C2: parsing a document whose lines are KEY(format A, k1), segment 1
\* (EXTINF + URI), KEY(format A, k2), segment 2 (EXTINF + URI) yields segment 1
\* with resolved key set exactly {k1} and segment 2 with exactly {k2}.
C2_KeyReplacement ==
    \A k1, k2 \in KeyTags :
        ( /\ pc = "returned_after_loop"
          /\ k1.key_format = k2.key_format
          /\ SameLines(lines,
                <<M3u, TagLine("ExtXTargetDuration", from_secs(10)),
                  TagLine("ExtXKey", k1),
                  TagLine("ExtInf", Duration(9, 9000000)), UriLine("a.ts"),
                  TagLine("ExtXKey", k2),
                  TagLine("ExtInf", Duration(9, 9000000)), UriLine("a.ts")>>) )
        => /\ Unwrap(result).ok
           /\ Range(Unwrap(Unwrap(result).value).segments[1].keys) = {k1}
           /\ Range(Unwrap(Unwrap(result).value).segments[2].keys) = {k2}

\* C3: key tags of different formats accumulate: when two key tags of
\* different formats precede a URI line and neither has been superseded by a
\* later key tag of its own format, the segment finalized at that URI line
\* has both in its resolved key set.
C3_KeyAccumulation ==
    \A k \in 1..Len(segments) :
        LET u == UriPosition(lines, k, 1)
        IN  \A i, j \in 1..(u - 1) :
                ( /\ i < j
                  /\ IsKeyLine(lines[i]) /\ IsKeyLine(lines[j])
                  /\ lines[i].v.key_format /= lines[j].v.key_format
                  /\ lines[i].v \in ActiveKeys(lines, u)
                  /\ lines[j].v \in ActiveKeys(lines, u) )
                => {lines[i].v, lines[j].v} \subseteq Range(segments[k].keys)

(* The line of the last map tag before the k-th URI line and after the one  *)
(* before it (0 if the segment has no map tag).                             *)
MapPosition(ls, k) ==
    LET u == UriPosition(ls, k, 1)
        p == IF k = 1 THEN 0 ELSE UriPosition(ls, k - 1, 1)
        c == {m \in (p + 1)..(u - 1) : IsTag(ls[m], "ExtXMap")}
    IN  IF c = {} THEN 0 ELSE CHOOSE m \in c : \A n \in c : n <= m

\* C4: the map tag stored on a segment carries exactly the keys that were
\* active at the line of the map tag: key tags before it are included, key
\* tags after it are not.
C4_MapCapturesActiveKeys ==
    \A k \in 1..Len(segments) :
        IsSome(segments[k].map_tag) =>
            Range(Unwrap(segments[k].map_tag).keys)
                = ActiveKeys(lines, MapPosition(lines, k))

(* Under SpecDur. *)
BuildValidated ==
    /\ pc = "built"
    /\ IsSome(builder.target_duration_tag)
    /\ IsSome(builder.segments)

(* T + E of builder b, E being zero seconds when unset. *)
LimitOf(b) == DurationAdd(Unwrap(b.target_duration_tag), ExcessOf(b))

C14_TargetDurationMandatory ==
    /\ (IsSome(result) /\ Unwrap(result).ok) => IsSome(builder.target_duration_tag)
    /\ (pc = "built" /\ IsNone(builder.target_duration_tag)) =>
          result = Some(Err("uninitialized_field", "uninitialized_field"))
    /\ (pc = "returned_after_loop" /\ ~has_partial_segment
          /\ IsNone(builder.target_duration_tag)) =>
          /\ \A i \in 1..Len(lines) : ~IsTag(lines[i], "ExtXTargetDuration")
          /\ result = Some(Err("builder_error", "uninitialized_field"))

\* C14 witness: a document of the marker and one complete segment, without a
\* target-duration tag, was parsed on a builder without one and the parse
\* failed in build().
C14_Witness ==
    /\ pc = "returned_after_loop"
    /\ Len(lines) = 3
    /\ IsUri(lines[3])
    /\ Len(segments) = 1
    /\ IsNone(builder.target_duration_tag)
    /\ result = Some(Err("builder_error", "uninitialized_field"))

-----------------------------------------------------------------------------
(* SpecRange: the byte-range check, through build() and through parse.     *)
(* Every duration is within the target duration, so a rejection can only   *)
(* come from a byte range.                                                  *)
MaxLinesRange == 8
MaxPushedRange == 3

ByteRange(length, start) == [length |-> length, start |-> start]
ByteRangeTags == {ByteRange(100, Some(0)), ByteRange(100, None)}
RangeUris == {"a.ts", "b.ts"}
RangeSegments ==
    {Segment(Duration(9, 9000000), br, u) :
        br \in {None} \cup {Some(t) : t \in ByteRangeTags}, u \in RangeUris}

NextRange ==
    \/ IsNone(builder.target_duration_tag) /\ SetTargetDurationTag(from_secs(10))
    \/ \E s \in RangeSegments : Pushed(MaxPushedRange) /\ PushSegment(s)
    \/ Build
    \/ IsNone(builder.segments) /\ IsNone(builder.target_duration_tag) /\ Parse
    \/ FirstTag(M3u)
    \/ Len(lines) = 1 /\ ExtXTargetDuration(from_secs(10))
    \/ \E t \in ByteRangeTags : Len(lines) > 1 /\ More(MaxLinesRange) /\ ExtXByteRange(t)
    \/ Len(lines) > 1 /\ More(MaxLinesRange) /\ ExtInf(Duration(9, 9000000))
    \/ \E u \in RangeUris : Len(lines) > 1 /\ More(MaxLinesRange) /\ Uri(u)
    \/ EndOfInput

SpecRange == Init /\ [][NextRange]_vars

HasRange(s) == IsSome(s.byte_range_tag)
OpenEnded(s) == HasRange(s) /\ IsNone(Unwrap(s.byte_range_tag).start)
ExplicitStart(s) == HasRange(s) /\ IsSome(Unwrap(s.byte_range_tag).start)

(* Every open-ended range of the list directly follows a segment of the    *)
(* same URI whose range has an explicit start.                             *)
EveryOpenEndedContinues(segs) ==
    \A n \in 1..Len(segs) :
        OpenEnded(segs[n]) =>
            n > 1 /\ ExplicitStart(segs[n - 1]) /\ segs[n - 1].uri = segs[n].uri

OpenEndedAfterOtherUri(segs) ==
    \E n \in 2..Len(segs) : OpenEnded(segs[n]) /\ segs[n - 1].uri /= segs[n].uri

OpenEndedFirstRange(segs) ==
    \E n \in 1..Len(segs) :
        OpenEnded(segs[n]) /\ \A m \in 1..(n - 1) : ~HasRange(segs[m])

\* C5: in validation, a byte-range tag without start on segment N+1 is
\* accepted when segment N has a byte-range tag with an explicit start and the
\* same URI; it is rejected when segment N has a different URI, and rejected
\* when no earlier segment carries a byte range.
C5_ByteRangeContinuation ==
    ValidationReached =>
        LET segs == Unwrap(builder.segments)
            r == Unwrap(result)
        IN  /\ EveryOpenEndedContinues(segs) => r.ok
            /\ OpenEndedAfterOtherUri(segs) => ~r.ok /\ r.cause = "invalid_input"
            /\ OpenEndedFirstRange(segs) => ~r.ok /\ r.cause = "invalid_input"

\* C5 witness: a parse accepted two segments of one URI, the first with an
\* explicit start and the second open-ended.
C5_Witness ==
    /\ ValidationReached
    /\ lines /= <<>>
    /\ Unwrap(result).ok
    /\ Len(Unwrap(builder.segments)) = 2
    /\ ExplicitStart(Unwrap(builder.segments)[1])
    /\ OpenEnded(Unwrap(builder.segments)[2])

UriCount(ls) == Cardinality({i \in 1..Len(ls) : IsUri(ls[i])})

\* C11: on a successful parse the returned playlist has exactly one segment
\* per URI line of the document, in input order: the k-th segment carries the
\* URI of the k-th URI line; and right after a URI line that did not abort the
\* parse the segment-in-progress flag is clear.
C11_SegmentsFollowUriLines ==
    /\ (pc = "returned_after_loop" /\ Unwrap(result).ok) =>
          LET segs == Unwrap(Unwrap(result).value).segments
          IN  /\ Len(segs) = UriCount(lines)
              /\ \A k \in 1..Len(segs) :
                    segs[k].uri = lines[UriPosition(lines, k, 1)].v
    /\ (pc = "parsing" /\ Len(lines) >= 1 /\ IsUri(lines[Len(lines)])) =>
          /\ ~has_partial_segment
          /\ Len(segments) = UriCount(lines)
          /\ segments[Len(segments)].uri = lines[Len(lines)].v

\* C11 witness: a parse returned a playlist of two segments with different
\* URIs, b.ts before a.ts as in the document.
C11_Witness ==
    /\ pc = "returned_after_loop"
    /\ lines /= <<>>
    /\ Unwrap(result).ok
    /\ UriCount(lines) = 2
    /\ Unwrap(Unwrap(result).value).segments[1].uri = "b.ts"
    /\ Unwrap(Unwrap(result).value).segments[2].uri = "a.ts"

-----------------------------------------------------------------------------
(* SpecGate: direct construction and parse side by side, with segment      *)
(* lists that fail the duration check, the byte-range check, or neither.    *)
MaxLinesGate == 8
MaxPushedGate == 2

GateSegments ==
    {Segment(d, br, u) :
        d \in {Duration(3, 3000000), Duration(9, 509000000)},
        br \in {None} \cup {Some(t) : t \in ByteRangeTags},
        u \in RangeUris}

NextGate ==
    \/ IsNone(builder.allowable_excess_duration)
          /\ SetAllowableExcessDuration(from_secs(2))
    \/ IsNone(builder.target_duration_tag) /\ SetTargetDurationTag(from_secs(8))
    \/ \E s \in GateSegments : Pushed(MaxPushedGate) /\ PushSegment(s)
    \/ Build
    \/ IsNone(builder.segments) /\ IsNone(builder.target_duration_tag) /\ Parse
    \/ FirstTag(M3u)
    \/ Len(lines) = 1 /\ ExtXTargetDuration(from_secs(8))
    \/ \E t \in ByteRangeTags : Len(lines) > 1 /\ More(MaxLinesGate) /\ ExtXByteRange(t)
    \/ \E d \in {Duration(3, 3000000), Duration(9, 509000000)} :
          Len(lines) > 1 /\ More(MaxLinesGate) /\ ExtInf(d)
    \/ \E u \in RangeUris : Len(lines) > 1 /\ More(MaxLinesGate) /\ Uri(u)
    \/ EndOfInput

SpecGate == Init /\ [][NextGate]_vars

(* The builder a caller fills from the fields of playlist p, with the       *)
(* tolerance e (an Option) of the builder p was parsed with.                *)
BuilderOf(p, e) ==
    [target_duration_tag |-> Some(p.target_duration_tag),
     media_sequence_tag |-> p.media_sequence_tag,
     discontinuity_sequence_tag |-> p.discontinuity_sequence_tag,
     playlist_type_tag |-> p.playlist_type_tag,
     i_frames_only_tag |-> p.i_frames_only_tag,
     independent_segments_tag |-> p.independent_segments_tag,
     start_tag |-> p.start_tag,
     end_list_tag |-> p.end_list_tag,
     segments |-> Some(p.segments),
     allowable_excess_duration |-> e]

(* The document that declares target duration T and lists the segments      *)
(* segs (each with its byte range, if any, its duration and its URI).       *)
RECURSIVE SegmentLines(_, _)
SegmentLines(segs, k) ==
    IF k > Len(segs) THEN <<>>
    ELSE OptLine("ExtXByteRange", segs[k].byte_range_tag)
         \o <<TagLine("ExtInf", segs[k].inf_tag), UriLine(segs[k].uri)>>
         \o SegmentLines(segs, k + 1)

DocumentOf(T, segs) ==
    <<M3u, TagLine("ExtXTargetDuration", T)>> \o SegmentLines(segs, 1)

(* Every playlist parse returns passes validate and is what build() makes   *)
(* of its fields.                                                           *)
ParsedPassesBuild ==
    (pc = "returned_after_loop" /\ Unwrap(result).ok) =>
        LET p == Unwrap(Unwrap(result).value)
            b == BuilderOf(p, builder.allowable_excess_duration)
        IN  validate(b).ok /\ build(b) = Ok(p)

(* What build() decides on a segment list is what parse decides on the      *)
(* document listing it: the same playlist, or a builder error wrapping the  *)
(* same validation error.                                                   *)
BuiltAgreesWithParse ==
    (pc = "built" /\ IsSome(builder.target_duration_tag) /\ IsSome(builder.segments)) =>
        LET r == Unwrap(result)
            q == Unwrap(parse_media_playlist(
                     DocumentOf(Unwrap(builder.target_duration_tag),
                                Unwrap(builder.segments)),
                     [EmptyBuilder EXCEPT !.allowable_excess_duration =
                                              builder.allowable_excess_duration]).ret)
        IN  IF r.ok
            THEN q = r
            ELSE /\ r.kind = "validation"
                 /\ r.cause \in {"custom", "invalid_input"}
                 /\ q = builder_error(r)

\* C15: parse and direct construction share one validation gate: every
\* playlist returned by parse passes the builder validation, and building
\* directly from its document-level fields, segments and tolerance succeeds
\* with an equal playlist; every segment list build() rejects for its
\* durations or byte ranges is rejected, for the same reason, when the
\* document listing it is parsed.
C15_OneValidationGate == ParsedPassesBuild /\ BuiltAgreesWithParse

\* C15 witness: build() rejected a list of two segments because of the byte
\* range of the second one (open-ended, after a segment of another URI).
C15_Witness ==
    /\ pc = "built"
    /\ IsSome(builder.target_duration_tag)
    /\ IsSome(builder.segments)
    /\ Len(Unwrap(builder.segments)) = 2
    /\ OpenEnded(Unwrap(builder.segments)[2])
    /\ Unwrap(builder.segments)[1].uri /= Unwrap(builder.segments)[2].uri
    /\ result = Some(Err("validation", "invalid_input"))

(* The segment list of builder b fails the duration check and has no byte   *)
(* range, or passes the duration check and has an open-ended byte range     *)
(* that continues nothing.                                                  *)
DurationFaultOnly(b) ==
    /\ ~AllWithinBound(b)
    /\ \A k \in 1..Len(Unwrap(b.segments)) : ~HasRange(Unwrap(b.segments)[k])

RangeFaultOnly(b) ==
    /\ AllWithinBound(b)
    /\ \/ OpenEndedAfterOtherUri(Unwrap(b.segments))
       \/ OpenEndedFirstRange(Unwrap(b.segments))

-----------------------------------------------------------------------------
(* SpecReuse: parse called repeatedly on one builder, which starts fresh   *)
(* but for the tolerance.                                                   *)
MaxLinesReuse == 5

NextReuse ==
    \/ IsNone(builder.allowable_excess_duration)
          /\ SetAllowableExcessDuration(from_secs(2))
    \/ Parse
    \/ ParseAgain
    \/ FirstTag(M3u)
    \/ More(MaxLinesReuse) /\ ExtXTargetDuration(from_secs(8))
    \/ More(MaxLinesReuse) /\ ExtXEndList
    \/ \E d \in {Duration(3, 3000000), Duration(9, 509000000)} :
          More(MaxLinesReuse) /\ ExtInf(d)
    \/ More(MaxLinesReuse) /\ Uri("a.ts")
    \/ EndOfInput

SpecReuse == Init /\ [][NextReuse]_vars

Returned == pc \in {"returned_in_loop", "returned_after_loop"}

(* A fresh builder with the tolerance of b. *)
FreshWithToleranceOf(b) ==
    [EmptyBuilder EXCEPT !.allowable_excess_duration = b.allowable_excess_duration]

(* b without its segment list: its tolerance and document-level tags. *)
DocumentLevel(b) == [b EXCEPT !.segments = None]

\* C16 (as stated): the result of a parse call depends only on the input text
\* and the tolerance: a call on a builder already used for an earlier parse
\* call returns what the same text returns on a fresh builder with the same
\* tolerance.
C16_ResultIndependentOfEarlierCalls ==
    Returned =>
        result = parse_media_playlist(lines, FreshWithToleranceOf(entry)).ret

\* C16 (amended): the local assembler state (pending segment, segment list,
\* segment-in-progress flag, discontinuity flag, key set) does not carry over
\* between parse calls, but the document-level tags an earlier call (also a
\* failed one) wrote to the builder do: a call on a used builder starts with
\* fresh local state, an error raised inside the line loop is the one a
\* fresh builder gives, and the result is that of the same text on a builder
\* holding the tolerance and the document-level tags the builder had when the
\* call started, without the segments of earlier calls.
C16_OnlyBuilderFieldsCarryOver ==
    /\ (pc = "parsing" /\ lines = <<>>) =>
          /\ segment = EmptySegment
          /\ segments = <<>>
          /\ ~has_partial_segment
          /\ ~has_discontinuity_tag
          /\ available_key_tags = <<>>
    /\ pc = "returned_in_loop" =>
          result = parse_media_playlist(lines, FreshWithToleranceOf(entry)).ret
    /\ Returned =>
          result = parse_media_playlist(lines, DocumentLevel(entry)).ret

\* C16 witness: a call on a used builder returned a playlist for a document
\* without a target-duration tag; the target duration comes from an earlier
\* call.
C16_Witness ==
    /\ pc = "returned_after_loop"
    /\ IsSome(entry.target_duration_tag)
    /\ \A i \in 1..Len(lines) : ~IsTag(lines[i], "ExtXTargetDuration")
    /\ Len(segments) = 1
    /\ Unwrap(result).ok

-----------------------------------------------------------------------------
(* SpecDisc: the discontinuity-sequence tag among discontinuity markers,   *)
(* duration tags and URI lines.                                             *)
MaxLinesDisc == 8

DiscontinuitySequences == {0, 3}

NextDisc ==
    \/ Parse
    \/ FirstTag(M3u)
    \/ Len(lines) = 1 /\ ExtXTargetDuration(from_secs(10))
    \/ Len(lines) > 1 /\ More(MaxLinesDisc) /\ ExtXDiscontinuity
    \/ \E t \in DiscontinuitySequences :
          Len(lines) > 1 /\ More(MaxLinesDisc) /\ ExtXDiscontinuitySequence(t)
    \/ Len(lines) > 1 /\ More(MaxLinesDisc) /\ ExtInf(Duration(9, 9000000))
    \/ Len(lines) > 1 /\ More(MaxLinesDisc) /\ Uri("a.ts")
    \/ EndOfInput

SpecDisc == Init /\ [][NextDisc]_vars

UriLineBefore(ls, n) == \E i \in 1..(n - 1) : IsUri(ls[i])
DiscontinuityBefore(ls, n) == \E i \in 1..(n - 1) : IsTag(ls[i], "ExtXDiscontinuity")

\* C6: a discontinuity-sequence tag makes parse fail (InvalidInput) if no URI
\* line precedes it, and if a discontinuity marker tag is on any earlier line;
\* otherwise it is recorded on the playlist under construction.
C6_DiscontinuitySequencePlacement ==
    LET n == Len(lines)
    IN  (n > 1 /\ IsTag(lines[n], "ExtXDiscontinuitySequence")) =>
            IF ~UriLineBefore(lines, n) \/ DiscontinuityBefore(lines, n)
            THEN pc = "returned_in_loop" /\ result = Some(invalid_input)
            ELSE /\ builder.discontinuity_sequence_tag = Some(lines[n].v)
                 /\ (pc = "returned_after_loop" /\ Unwrap(result).ok) =>
                        Unwrap(Unwrap(result).value).discontinuity_sequence_tag
                            = Some(lines[n].v)

\* C6 witness: a discontinuity marker, then a finalized segment, then the
\* discontinuity-sequence tag, which is rejected.
C6_Witness ==
    LET n == Len(lines)
    IN  /\ n > 1
        /\ IsTag(lines[n], "ExtXDiscontinuitySequence")
        /\ UriLineBefore(lines, n)
        /\ DiscontinuityBefore(lines, n)
        /\ IsUri(lines[n - 1])
        /\ result = Some(invalid_input)

(* A builder that carries nothing but the tolerance e. *)
BuilderWithExcess(e) == [EmptyBuilder EXCEPT !.allowable_excess_duration = Some(e)]

\* C7: round trip: for every playlist p a parse call returns (also one with a
\* discontinuity-sequence tag), parsing the rendered text of p (with the
\* tolerance p was parsed with) succeeds and yields a value equal to p.
C7_RoundTrip ==
    (pc = "returned_after_loop" /\ Unwrap(result).ok) =>
        LET p == Unwrap(Unwrap(result).value)
            q == parse_media_playlist(render(p),
                     BuilderWithExcess(p.allowable_excess_duration)).ret
        IN  Unwrap(q).ok /\ Unwrap(Unwrap(q).value) = p

-----------------------------------------------------------------------------
(* Spec: every arm of the assembler, on a fresh builder (FromStr) or on a  *)
(* builder whose target duration was set; one value per kind of line.      *)
MaxLines == 4

(* The tag lines a document may start with: one of every kind. *)
TagLines ==
    <<M3u,
      TagLine("ExtInf", Duration(9, 9000000)),
      TagLine("ExtXByteRange", ByteRange(100, Some(0))),
      TagLine("ExtXDiscontinuity", Unit),
      TagLine("ExtXKey", Key("A", "k1")),
      TagLine("ExtXMap", [uri |-> "init.mp4", keys |-> <<>>]),
      TagLine("ExtXProgramDateTime", "2010-02-19T14:54:23Z"),
      TagLine("ExtXDateRange", "r1"),
      TagLine("ExtXTargetDuration", from_secs(10)),
      TagLine("ExtXMediaSequence", 7),
      TagLine("ExtXDiscontinuitySequence", 3),
      TagLine("ExtXEndList", Unit),
      TagLine("ExtXPlaylistType", "VOD"),
      TagLine("ExtXIFramesOnly", Unit),
      TagLine("ExtXMedia", Unit),
      TagLine("ExtXStreamInf", Unit),
      TagLine("ExtXIFrameStreamInf", Unit),
      TagLine("ExtXSessionData", Unit),
      TagLine("ExtXSessionKey", Unit),
      TagLine("ExtXIndependentSegments", Unit),
      TagLine("ExtXStart", "0.0"),
      TagLine("Unknown", "#EXT-X-FOO"),
      TagLine("ExtXVersion", 3)>>

Next ==
    \/ IsNone(builder.target_duration_tag) /\ SetTargetDurationTag(from_secs(10))
    \/ Parse
    \/ \E k \in DOMAIN TagLines : FirstTag(TagLines[k])
    \/ More(MaxLines) /\ ExtM3u
    \/ More(MaxLines) /\ ExtInf(Duration(9, 9000000))
    \/ More(MaxLines) /\ ExtXByteRange(ByteRange(100, Some(0)))
    \/ More(MaxLines) /\ ExtXDiscontinuity
    \/ More(MaxLines) /\ ExtXKey(Key("A", "k1"))
    \/ More(MaxLines) /\ ExtXMap([uri |-> "init.mp4", keys |-> <<>>])
    \/ More(MaxLines) /\ ExtXProgramDateTime("2010-02-19T14:54:23Z")
    \/ More(MaxLines) /\ ExtXDateRange("r1")
    \/ More(MaxLines) /\ ExtXTargetDuration(from_secs(10))
    \/ More(MaxLines) /\ ExtXMediaSequence(7)
    \/ More(MaxLines) /\ ExtXDiscontinuitySequence(3)
    \/ More(MaxLines) /\ ExtXEndList
    \/ More(MaxLines) /\ ExtXPlaylistType("VOD")
    \/ More(MaxLines) /\ ExtXIFramesOnly
    \/ \E name \in MasterTagNames : More(MaxLines) /\ MasterTag(name)
    \/ More(MaxLines) /\ ExtXIndependentSegments
    \/ More(MaxLines) /\ ExtXStart("0.0")
    \/ More(MaxLines) /\ IgnoredTag("Unknown", "#EXT-X-FOO")
    \/ More(MaxLines) /\ IgnoredTag("ExtXVersion", 3)
    \/ More(MaxLines) /\ Uri("a.ts")
    \/ EndOfInput

Spec == Init /\ [][Next]_vars

FirstLineIsMarker(ls) == Len(ls) >= 1 /\ IsTag(ls[1], "ExtM3u")

C9_RepeatedMarkerRejected ==
    LET n == Len(lines)
    IN  (n > 1 /\ IsTag(lines[n], "ExtM3u")) =>
            pc = "returned_in_loop" /\ result = Some(invalid_input)

\* C9 witness: the marker is read again after a finalized segment and parse
\* has failed.
C9_Witness ==
    LET n == Len(lines)
    IN  /\ n > 1
        /\ IsTag(lines[n], "ExtM3u")
        /\ IsUri(lines[n - 1])
        /\ Len(segments) = 1
        /\ result = Some(invalid_input)

(* The last URI line of ls (0 if there is none). *)
LastUriPosition(ls) ==
    LET c == {i \in 1..Len(ls) : IsUri(ls[i])}
    IN  IF c = {} THEN 0 ELSE CHOOSE i \in c : \A j \in c : j <= i

SegmentScopedTagNames ==
    {"ExtInf", "ExtXByteRange", "ExtXDiscontinuity", "ExtXMap",
     "ExtXProgramDateTime", "ExtXDateRange"}

(* After the last URI line (or after the first line if there is none) a    *)
(* segment-scoped tag or a key tag appears.                                 *)
SegmentInProgress(ls) ==
    \E i \in (Max(LastUriPosition(ls), 1) + 1)..Len(ls) :
        ls[i].tag \in SegmentScopedTagNames \cup {"ExtXKey"}

\* C10: if the input ends while a segment is in progress (a segment-scoped
\* tag or a key tag after the last URI line) parse fails with InvalidInput;
\* document-level, version and unrecognized tags after the last URI line do
\* not cause this failure.
C10_DanglingSegmentRejected ==
    pc = "returned_after_loop" =>
        (SegmentInProgress(lines) <=> result = Some(invalid_input))

\* C10 witness: the input ends right after a key tag that follows a
\* finalized segment, and parse has failed.
C10_Witness ==
    LET n == Len(lines)
    IN  /\ pc = "returned_after_loop"
        /\ n > 2
        /\ IsTag(lines[n], "ExtXKey")
        /\ IsUri(lines[n - 1])
        /\ result = Some(invalid_input)

\* C12: a master-only tag (EXT-X-MEDIA, stream-inf, i-frame-stream-inf,
\* session-data, session-key) on any line after the first makes parse fail at
\* that line with an UnexpectedTag error carrying that tag, whatever the
\* assembler has read before it.
C12_MasterTagRejected ==
    LET n == Len(lines)
    IN  (n > 1 /\ lines[n].line = "Tag" /\ lines[n].tag \in MasterTagNames) =>
            /\ pc = "returned_in_loop"
            /\ result = Some(unexpected_tag(lines[n].tag))

\* C12 witness: a session-key tag is read after a finalized segment and parse
\* has failed with the error naming it.
C12_Witness ==
    LET n == Len(lines)
    IN  /\ n > 2
        /\ IsTag(lines[n], "ExtXSessionKey")
        /\ IsUri(lines[n - 1])
        /\ Len(segments) = 1
        /\ result = Some(unexpected_tag("ExtXSessionKey"))

(* The builders a parse call of Spec starts from. *)
InitialBuilders ==
    {EmptyBuilder, [EmptyBuilder EXCEPT !.target_duration_tag = Some(from_secs(10))]}

(* The document ls without its line i. *)
RemoveLine(ls, i) == SubSeq(ls, 1, i - 1) \o SubSeq(ls, i + 1, Len(ls))

IsIgnoredLine(l) == l.line = "Tag" /\ l.tag \in IgnoredTagNames

(* What the call that read `lines` returned is what parse_media_playlist    *)
(* returns for `lines` on the builder the call started from.                *)
ReturnedFromLines ==
    pc \in {"returned_in_loop", "returned_after_loop"} =>
        \E b0 \in InitialBuilders : result = parse_media_playlist(lines, b0).ret

(* Removing an ignored line (not the first) from the document changes       *)
(* neither the result nor the builder and local state the call ends with.   *)
IgnoredLineRemovable ==
    \A i \in 2..Len(lines) :
        IsIgnoredLine(lines[i]) =>
            \A b0 \in InitialBuilders :
                parse_media_playlist(lines, b0)
                    = parse_media_playlist(RemoveLine(lines, i), b0)

(* Reading an ignored line after the first leaves every variable of the     *)
(* assembler as it was and does not return.                                 *)
IgnoredLineStep ==
    ( /\ Len(lines') = Len(lines) + 1
      /\ Len(lines) >= 1
      /\ IsIgnoredLine(lines'[Len(lines')]) )
    => UNCHANGED <<pc, builder, locals, result>>

\* C13: a version tag or an unrecognized tag on any line after the first
\* never aborts parsing and changes no assembler state (pending segment,
\* segment-in-progress flag, key set, discontinuity flag, builder fields), and
\* the parse result (playlist or error) equals the result for the same
\* document with that line removed.
C13_IgnoredTagsAreInert ==
    /\ [](ReturnedFromLines /\ IgnoredLineRemovable)
    /\ [][IgnoredLineStep]_vars

\* C13 witness: a version tag stands between the duration tag and the URI
\* line of a segment, and the parse returned a playlist holding that segment.
C13_Witness ==
    /\ pc = "returned_after_loop"
    /\ Len(lines) = 4
    /\ IsTag(lines[2], "ExtInf")
    /\ IsTag(lines[3], "ExtXVersion")
    /\ IsUri(lines[4])
    /\ Unwrap(result).ok
    /\ Len(Unwrap(Unwrap(result).value).segments) = 1

ParsedOk == pc = "returned_after_loop" /\ Unwrap(result).ok
Parsed == Unwrap(Unwrap(result).value)

IsVersionLine(l) == l.line = "Tag" /\ l.tag = "ExtXVersion"
VersionLinesOf(ls) == {i \in 1..Len(ls) : IsVersionLine(ls[i])}

(* The document ls without its version directives. *)
WithoutVersionLines(ls) == SelectSeq(ls, LAMBDA l : ~IsVersionLine(l))

\* C17: the rendering of a playlist has a version directive iff the
\* playlist's required version is above V1, and its value is the required
\* version; a version directive in the parsed input has no influence: the
\* playlist and its rendering are those of the input without it, so a parsed
\* playlist of required version V1 renders without a version directive.
C17_VersionDirectiveOnRender ==
    ParsedOk =>
        LET out == render(Parsed)
            v == required_version(Parsed)
            q == parse_media_playlist(WithoutVersionLines(lines), entry).ret
        IN  /\ (VersionLinesOf(out) /= {}) <=> (v > V1)
            /\ Cardinality(VersionLinesOf(out)) <= 1
            /\ \A i \in VersionLinesOf(out) : out[i].v = v
            /\ Unwrap(q).ok
            /\ Unwrap(Unwrap(q).value) = Parsed

\* C17 witness: the parsed input declares version 3, the playlist requires
\* only V1 and its rendering has no version directive.
C17_Witness ==
    /\ ParsedOk
    /\ VersionLinesOf(lines) /= {}
    /\ required_version(Parsed) = V1
    /\ VersionLinesOf(render(Parsed)) = {}

(* The versions the tags that are present ask for. *)
OptVersion(name, o) ==
    IF IsSome(o) THEN {tag_required_version(name, Unwrap(o))} ELSE {}

(* f is a playlist or a builder: the optional document-level tags. *)
DocumentTagVersions(f) ==
    OptVersion("ExtXMediaSequence", f.media_sequence_tag)
    \cup OptVersion("ExtXDiscontinuitySequence", f.discontinuity_sequence_tag)
    \cup OptVersion("ExtXPlaylistType", f.playlist_type_tag)
    \cup OptVersion("ExtXIFramesOnly", f.i_frames_only_tag)
    \cup OptVersion("ExtXIndependentSegments", f.independent_segments_tag)
    \cup OptVersion("ExtXStart", f.start_tag)
    \cup OptVersion("ExtXEndList", f.end_list_tag)

SegmentVersions(segs) == {segment_required_version(segs[k]) : k \in 1..Len(segs)}

(* v is the greatest member of S, or V1 when no member is above it. *)
IsMaximumOf(v, S) == v \in S \cup {V1} /\ \A x \in S \cup {V1} : x <= v

\* C18: the required version of a media playlist, and of its builder, is
\* the maximum of the required versions of its target-duration tag, of each
\* optional document-level tag that is present and of every segment, and V1
\* when none of them asks for more; absent optional fields contribute
\* nothing.
C18_RequiredVersionIsMaximum ==
    /\ ParsedOk =>
          IsMaximumOf(required_version(Parsed),
              {tag_required_version("ExtXTargetDuration", Parsed.target_duration_tag)}
              \cup DocumentTagVersions(Parsed)
              \cup SegmentVersions(Parsed.segments))
    /\ IsMaximumOf(builder_required_version(builder),
          OptVersion("ExtXTargetDuration", builder.target_duration_tag)
          \cup DocumentTagVersions(builder)
          \cup (IF IsSome(builder.segments)
                THEN SegmentVersions(Unwrap(builder.segments))
                ELSE {}))

\* C18 witness: a parsed playlist whose document-level tags ask for V1 only
\* and whose one segment, carrying a map tag, asks for version 6.
C18_Witness ==
    /\ ParsedOk
    /\ Len(Parsed.segments) = 1
    /\ IsSome(Parsed.segments[1].map_tag)
    /\ DocumentTagVersions(Parsed) = {}
    /\ required_version(Parsed) = 6

(* The place of a rendered line in the canonical order: the marker, the     *)
(* version, the document-level tags in field order, the lines of the        *)
(* segments, the end-list tag.                                              *)
Rank(l) ==
    IF l.line = "Uri" THEN 10
    ELSE CASE l.tag = "ExtM3u" -> 1
           [] l.tag = "ExtXVersion" -> 2
           [] l.tag = "ExtXTargetDuration" -> 3
           [] l.tag = "ExtXMediaSequence" -> 4
           [] l.tag = "ExtXDiscontinuitySequence" -> 5
           [] l.tag = "ExtXPlaylistType" -> 6
           [] l.tag = "ExtXIFramesOnly" -> 7
           [] l.tag = "ExtXIndependentSegments" -> 8
           [] l.tag = "ExtXStart" -> 9
           [] l.tag = "ExtXEndList" -> 11
           [] OTHER -> 10

SegmentRank == Rank(UriLine(""))

LinesOfTag(ls, name) == {i \in 1..Len(ls) : IsTag(ls[i], name)}

(* The optional field o is rendered as one line of tag `name` carrying its  *)
(* value if it is set, and as no line if it is not.                         *)
RenderedOnce(out, name, o) ==
    IF IsSome(o)
    THEN /\ Cardinality(LinesOfTag(out, name)) = 1
         /\ \A i \in LinesOfTag(out, name) : out[i].v = Unwrap(o)
    ELSE LinesOfTag(out, name) = {}

\* C19: the rendering starts with the start-of-file marker, followed by the
\* version directive (if required), target-duration, media-sequence,
\* discontinuity-sequence, playlist-type, i-frames-only, independent-segments
\* and start (each optional one only if set, once, with its value), then the
\* segments in sequence order, then the end-list marker last if present;
\* unset optional fields produce no line.
C19_RenderOrder ==
    ParsedOk =>
        LET p == Parsed
            out == render(p)
        IN  /\ SameLine(out[1], M3u)
            /\ \A i, j \in 1..Len(out) :
                  i < j => /\ Rank(out[i]) <= Rank(out[j])
                           /\ Rank(out[i]) = Rank(out[j]) => Rank(out[i]) = SegmentRank
            /\ RenderedOnce(out, "ExtXTargetDuration", Some(p.target_duration_tag))
            /\ RenderedOnce(out, "ExtXMediaSequence", p.media_sequence_tag)
            /\ RenderedOnce(out, "ExtXDiscontinuitySequence", p.discontinuity_sequence_tag)
            /\ RenderedOnce(out, "ExtXPlaylistType", p.playlist_type_tag)
            /\ RenderedOnce(out, "ExtXIFramesOnly", p.i_frames_only_tag)
            /\ RenderedOnce(out, "ExtXIndependentSegments", p.independent_segments_tag)
            /\ RenderedOnce(out, "ExtXStart", p.start_tag)
            /\ RenderedOnce(out, "ExtXEndList", p.end_list_tag)
            /\ UriCount(out) = Len(p.segments)
            /\ \A k \in 1..Len(p.segments) :
                  out[UriPosition(out, k, 1)].v = p.segments[k].uri
            /\ IsSome(p.end_list_tag) => IsTag(out[Len(out)], "ExtXEndList")

\* C19 witness: a parsed playlist with one segment and the end-list tag,
\* whose rendering ends with the segment's URI line and then the end-list
\* tag.
C19_Witness ==
    /\ ParsedOk
    /\ Len(Parsed.segments) = 1
    /\ IsSome(Parsed.end_list_tag)
    /\ LET out == render(Parsed)
       IN  /\ IsUri(out[Len(out) - 1])
           /\ IsTag(out[Len(out)], "ExtXEndList")

DocumentLevelTagNames ==
    {"ExtXTargetDuration", "ExtXMediaSequence", "ExtXDiscontinuitySequence",
     "ExtXEndList", "ExtXPlaylistType", "ExtXIFramesOnly",
     "ExtXIndependentSegments", "ExtXStart"}

IsDocumentLevelLine(l) == l.line = "Tag" /\ l.tag \in DocumentLevelTagNames

(* Line i of ls stands inside a segment: a segment-scoped tag precedes it   *)
(* with no URI line in between.                                             *)
InsideSegment(ls, i) ==
    \E j \in 2..(i - 1) :
        /\ ls[j].line = "Tag"
        /\ ls[j].tag \in SegmentScopedTagNames
        /\ \A m \in j..(i - 1) : ~IsUri(ls[m])

(* The field of builder b that the document-level tag `name` is stored in. *)
BuilderField(b, name) ==
    CASE name = "ExtXTargetDuration" -> b.target_duration_tag
      [] name = "ExtXMediaSequence" -> b.media_sequence_tag
      [] name = "ExtXDiscontinuitySequence" -> b.discontinuity_sequence_tag
      [] name = "ExtXEndList" -> b.end_list_tag
      [] name = "ExtXPlaylistType" -> b.playlist_type_tag
      [] name = "ExtXIFramesOnly" -> b.i_frames_only_tag
      [] name = "ExtXIndependentSegments" -> b.independent_segments_tag
      [] name = "ExtXStart" -> b.start_tag

\* C21 (as stated): a document in which a document-level tag appears while a
\* segment is in progress (between a segment-scoped tag and that segment's
\* URI line) is not accepted as a media playlist.
C21_DocumentTagInsideSegmentRejected ==
    ParsedOk =>
        \A i \in 2..Len(lines) :
            IsDocumentLevelLine(lines[i]) => ~InsideSegment(lines, i)

(* A step that reads a document-level tag after the first line. *)
DocumentTagStep ==
    ( /\ Len(lines') = Len(lines) + 1
      /\ Len(lines) >= 1
      /\ IsDocumentLevelLine(lines'[Len(lines')]) )
    => LET l == lines'[Len(lines')]
       IN  IF /\ l.tag = "ExtXDiscontinuitySequence"
              /\ (segments = <<>> \/ has_discontinuity_tag)
           THEN /\ pc' = "returned_in_loop"
                /\ result' = Some(invalid_input)
           ELSE /\ UNCHANGED <<pc, locals, result>>
                /\ BuilderField(builder', l.tag) = Some(l.v)
                /\ \A name \in DocumentLevelTagNames \ {l.tag} :
                      BuilderField(builder', name) = BuilderField(builder, name)

\* C21 (amended): a document-level tag is recorded on the playlist under
\* construction wherever it appears after the first line, also while a
\* segment is in progress: it leaves the pending segment, the
\* segment-in-progress flag and the other local state as they are and does
\* not abort the parse (the discontinuity-sequence tag is refused only when
\* no segment is finalized yet or a discontinuity marker was read).
C21_DocumentTagRecordedAnywhere == [][DocumentTagStep]_vars

\* C21 witness: an end-list tag between a duration tag and the URI line of
\* its segment, in a document that was accepted.
C21_Witness ==
    /\ ParsedOk
    /\ Len(lines) = 4
    /\ IsTag(lines[2], "ExtInf")
    /\ IsTag(lines[3], "ExtXEndList")
    /\ IsUri(lines[4])
    /\ IsSome(Parsed.end_list_tag)
    /\ Len(Parsed.segments) = 1

(* Under SpecKeys. *)
(* During a parse call every step keeps the segments finalized so far. *)
FinalizedSegmentsKept ==
    pc = "parsing" =>
        /\ Len(segments') >= Len(segments)
        /\ \A k \in 1..Len(segments) : segments'[k] = segments[k]

\* C23: a finalized segment is immutable for the rest of the parse: once a
\* URI line has appended a segment, no later line (key tag, map tag,
\* segment-scoped tag or any other) changes its fields or its key set, and
\* the returned playlist holds the segments as they were finalized.
C23_FinalizedSegmentImmutable ==
    /\ [][FinalizedSegmentsKept]_vars
    /\ [](ParsedOk => Parsed.segments = segments)

\* C23 witness: after the first segment was finalized a key tag and a map
\* tag were read, and the parse goes on with that one segment.
C23_Witness ==
    /\ pc = "parsing"
    /\ Len(segments) = 1
    /\ \E u \in 1..Len(lines) :
          /\ IsUri(lines[u])
          /\ \E i \in (u + 1)..Len(lines) : IsKeyLine(lines[i])
          /\ \E j \in (u + 1)..Len(lines) : IsTag(lines[j], "ExtXMap")


-----------------------------------------------------------------------------
(* The EXT-X-MEDIA tag (src/src/tags/master_playlist/media.rs).  A tag is   *)
(* made through ExtXMediaBuilder (setters, then build) or by from_str,      *)
(* which feeds the attribute pairs of the line to the same builder.         *)

(* crate::types::MediaType and its attribute spellings. *)
MediaTypes == {"AUDIO", "VIDEO", "SUBTITLES", "CLOSED-CAPTIONS"}

(* crate::types::InStreamId: the four closed-caption channels and the       *)
(* digital services.                                                        *)
Cc == {"CC1", "CC2", "CC3", "CC4"}
Services == {"SERVICE1", "SERVICE2", "SERVICE63"}
InStreamIds == Cc \cup Services

(* The message of an Error, which is all a String keeps of it. *)
missing_attribute(name) == Err("validation", "missing_attribute " \o name)
unexpected_attribute(name) == Err("validation", "unexpected_attribute " \o name)
custom_message == Err("validation", "custom")
invalid_input_message == Err("validation", "invalid_input")

(* Option::unwrap_or *)
unwrap_or(o, d) == IF IsSome(o) THEN Unwrap(o) ELSE d

(* Faulty variant: a subtitles rendition needs no URI. *)
validate_subtitles_uri_not_required(b, media_type) == Ok(Unit)

(* validate, the first check on the URI: SUBTITLES needs one. *)
validate_subtitles_uri(b, media_type) ==
    IF media_type = "SUBTITLES" /\ IsNone(b.uri)
    THEN missing_attribute("URI")
    ELSE Ok(Unit)

(* Faulty variant: only closed captions are checked, so any other type may  *)
(* carry an in-stream identifier.                                           *)
validate_closed_captions_only(b, media_type) ==
    IF media_type = "CLOSED-CAPTIONS"
    THEN IF IsSome(b.uri)
         THEN unexpected_attribute("URI")
         ELSE IF IsNone(b.instream_id)
              THEN missing_attribute("INSTREAM-ID")
              ELSE Ok(Unit)
    ELSE Ok(Unit)

(* validate, the closed-captions block: CLOSED-CAPTIONS takes no URI and    *)
(* needs an in-stream identifier; every other type must not have one.       *)
validate_closed_captions(b, media_type) ==
    IF media_type = "CLOSED-CAPTIONS"
    THEN IF IsSome(b.uri)
         THEN unexpected_attribute("URI")
         ELSE IF IsNone(b.instream_id)
              THEN missing_attribute("INSTREAM-ID")
              ELSE Ok(Unit)
    ELSE IF IsSome(b.instream_id)
         THEN unexpected_attribute("INSTREAM-ID")
         ELSE Ok(Unit)

(* Faulty variant: an absent AUTOSELECT counts as false. *)
validate_default_needing_autoselect(b) ==
    IF unwrap_or(b.is_default, FALSE) /\ ~unwrap_or(b.is_autoselect, FALSE)
    THEN custom_message
    ELSE Ok(Unit)

(* validate, the DEFAULT / AUTOSELECT check: an absent DEFAULT counts as    *)
(* false, an absent AUTOSELECT as true.                                     *)
validate_default(b) ==
    IF unwrap_or(b.is_default, FALSE) /\ ~unwrap_or(b.is_autoselect, TRUE)
    THEN custom_message
    ELSE Ok(Unit)

(* Faulty variant: only FORCED=YES is refused outside subtitles. *)
validate_forced_only_when_yes(b, media_type) ==
    IF media_type /= "SUBTITLES" /\ unwrap_or(b.is_forced, FALSE)
    THEN invalid_input_message
    ELSE Ok(Unit)

(* validate, the FORCED check: outside SUBTITLES the attribute must not be  *)
(* set at all.                                                              *)
validate_forced(b, media_type) ==
    IF media_type /= "SUBTITLES" /\ IsSome(b.is_forced)
    THEN invalid_input_message
    ELSE Ok(Unit)

(* Faulty variant: only the presence of the media type is checked. *)
ExtXMediaBuilder_validate_type_only(b) ==
    IF IsNone(b.media_type)
    THEN missing_attribute("MEDIA-TYPE")
    ELSE Ok(Unit)

(* ExtXMediaBuilder::validate: the checks in the order the code makes them, *)
(* the first failing one returning its message.                            *)
ExtXMediaBuilder_validate(b) ==
    IF IsNone(b.media_type)
    THEN missing_attribute("MEDIA-TYPE")
    ELSE LET media_type == Unwrap(b.media_type)
         IN  IF ~validate_subtitles_uri(b, media_type).ok
             THEN validate_subtitles_uri(b, media_type)
             ELSE IF ~validate_closed_captions(b, media_type).ok
             THEN validate_closed_captions(b, media_type)
             ELSE IF ~validate_default(b).ok
             THEN validate_default(b)
             ELSE validate_forced(b, media_type)

(* The fields of ExtXMedia the derive gives no default: build refuses a     *)
(* builder that has not set them, naming the first one in field order.      *)
first_uninitialized(b) ==
    IF IsNone(b.media_type) THEN Some("media_type")
    ELSE IF IsNone(b.group_id) THEN Some("group_id")
    ELSE IF IsNone(b.name) THEN Some("name")
    ELSE None

(* The ExtXMedia a complete builder stands for: #[builder(default)] fills   *)
(* the flags with false and the optional attributes with None.              *)
ExtXMediaOf(b) ==
    [media_type |-> Unwrap(b.media_type),
     uri |-> b.uri,
     group_id |-> Unwrap(b.group_id),
     language |-> b.language,
     assoc_language |-> b.assoc_language,
     name |-> Unwrap(b.name),
     is_default |-> IF IsSome(b.is_default) THEN Unwrap(b.is_default) ELSE FALSE,
     is_autoselect |-> IF IsSome(b.is_autoselect)
                       THEN Unwrap(b.is_autoselect) ELSE FALSE,
     is_forced |-> IF IsSome(b.is_forced) THEN Unwrap(b.is_forced) ELSE FALSE,
     instream_id |-> b.instream_id,
     characteristics |-> b.characteristics,
     channels |-> b.channels]

(* Faulty variant: the name has a default, the empty string. *)
ExtXMediaBuilder_build_defaulting_name(b) ==
    LET v == ExtXMediaBuilder_validate(b)
    IN  IF ~v.ok
        THEN v
        ELSE IF IsNone(b.media_type)
             THEN Err("uninitialized_field", "media_type")
             ELSE IF IsNone(b.group_id)
             THEN Err("uninitialized_field", "group_id")
             ELSE Ok(ExtXMediaOf([b EXCEPT !.name = Some(unwrap_or(b.name, ""))]))

(* The derived ExtXMediaBuilder::build(): validate first, then the fields   *)
(* without a default must be set.                                           *)
ExtXMediaBuilder_build(b) ==
    LET v == ExtXMediaBuilder_validate(b)
    IN  IF ~v.ok
        THEN v
        ELSE IF IsSome(first_uninitialized(b))
             THEN Err("uninitialized_field", Unwrap(first_uninitialized(b)))
             ELSE Ok(ExtXMediaOf(b))

(* <ExtXMedia as RequiredVersion>::required_version *)
V7 == 7

(* Faulty variant: any in-stream identifier asks for V7. *)
ExtXMedia_required_version_for_any_id(m) ==
    IF IsNone(m.instream_id) THEN V1 ELSE V7

ExtXMedia_required_version(m) ==
    IF IsNone(m.instream_id) \/ Unwrap(m.instream_id) \in Cc
    THEN V1
    ELSE V7

-----------------------------------------------------------------------------
(* <ExtXMedia as FromStr>::from_str.  The line is given as the attribute    *)
(* pairs AttributePairs yields from it, each value as written: its text and *)
(* whether it stands in double quotes.                                      *)
Raw(text) == [quoted |-> FALSE, text |-> text]
Quoted(text) == [quoted |-> TRUE, text |-> text]
Pair(key, value) == [key |-> key, value |-> value]

(* crate::utils::unquote: the text without its quotes. *)
unquote(value) == value.text

(* crate::utils::parse_yes_or_no: exactly the tokens YES and NO. *)
parse_yes_or_no(value) ==
    IF ~value.quoted /\ value.text = "YES" THEN Ok(TRUE)
    ELSE IF ~value.quoted /\ value.text = "NO" THEN Ok(FALSE)
    ELSE invalid_input

(* <MediaType as FromStr>::from_str: one of the four spellings, unquoted. *)
MediaType_from_str(value) ==
    IF ~value.quoted /\ value.text \in MediaTypes
    THEN Ok(value.text)
    ELSE invalid_input

(* <InStreamId as FromStr>::from_str *)
InStreamId_from_str(text) ==
    IF text \in InStreamIds THEN Ok(text) ELSE invalid_input

(* <Channels as FromStr>::from_str: a channel count. *)
Channels_from_str(text) ==
    IF text \in {"2", "6"} THEN Ok(text) ELSE invalid_input

(* The state of one from_str call: its builder, and what it has returned.   *)
FromStrState(b) == [builder |-> b, ret |-> None]


(* Faulty variant: once a field is set, a later pair of the same name is    *)
(* dropped.                                                                 *)
set_or_return_keeping_first(B, field, r) ==
    IF r.ok
    THEN IF IsSome(B.builder[field])
         THEN B
         ELSE [B EXCEPT !.builder[field] = r.value]
    ELSE [B EXCEPT !.ret = Some(r)]

(* `?` on a converter's result r: the error returns from from_str at once,  *)
(* the value goes to the setter of `field`.                                 *)
set_or_return(B, field, r) ==
    IF r.ok
    THEN [B EXCEPT !.builder[field] = r.value]
    ELSE [B EXCEPT !.ret = Some(r)]

(* Faulty variant: an attribute name the tag does not know is an error. *)
from_str_arm_refusing_unknown(B, key, value) ==
    CASE key = "TYPE" -> set_or_return(B, "media_type", MediaType_from_str(value))
      [] key = "URI" -> [B EXCEPT !.builder.uri = Some(unquote(value))]
      [] key = "GROUP-ID" -> [B EXCEPT !.builder.group_id = Some(unquote(value))]
      [] key = "LANGUAGE" -> [B EXCEPT !.builder.language = Some(unquote(value))]
      [] key = "ASSOC-LANGUAGE" ->
             [B EXCEPT !.builder.assoc_language = Some(unquote(value))]
      [] key = "NAME" -> [B EXCEPT !.builder.name = Some(unquote(value))]
      [] key = "DEFAULT" -> set_or_return(B, "is_default", parse_yes_or_no(value))
      [] key = "AUTOSELECT" ->
             set_or_return(B, "is_autoselect", parse_yes_or_no(value))
      [] key = "FORCED" -> set_or_return(B, "is_forced", parse_yes_or_no(value))
      [] key = "INSTREAM-ID" ->
             set_or_return(B, "instream_id", InStreamId_from_str(unquote(value)))
      [] key = "CHARACTERISTICS" ->
             [B EXCEPT !.builder.characteristics = Some(unquote(value))]
      [] key = "CHANNELS" ->
             set_or_return(B, "channels", Channels_from_str(unquote(value)))
      [] OTHER -> [B EXCEPT !.ret = Some(invalid_input)]

(* The body of the loop over the attribute pairs: the `match` on the key.   *)
from_str_arm(B, key, value) ==
    CASE key = "TYPE" -> set_or_return(B, "media_type", MediaType_from_str(value))
      [] key = "URI" -> [B EXCEPT !.builder.uri = Some(unquote(value))]
      [] key = "GROUP-ID" -> [B EXCEPT !.builder.group_id = Some(unquote(value))]
      [] key = "LANGUAGE" -> [B EXCEPT !.builder.language = Some(unquote(value))]
      [] key = "ASSOC-LANGUAGE" ->
             [B EXCEPT !.builder.assoc_language = Some(unquote(value))]
      [] key = "NAME" -> [B EXCEPT !.builder.name = Some(unquote(value))]
      [] key = "DEFAULT" -> set_or_return(B, "is_default", parse_yes_or_no(value))
      [] key = "AUTOSELECT" ->
             set_or_return(B, "is_autoselect", parse_yes_or_no(value))
      [] key = "FORCED" -> set_or_return(B, "is_forced", parse_yes_or_no(value))
      [] key = "INSTREAM-ID" ->
             set_or_return(B, "instream_id", InStreamId_from_str(unquote(value)))
      [] key = "CHARACTERISTICS" ->
             [B EXCEPT !.builder.characteristics = Some(unquote(value))]
      [] key = "CHANNELS" ->
             set_or_return(B, "channels", Channels_from_str(unquote(value)))
      [] OTHER -> B

(* The loop from pair i on, then builder.build().map_err(builder_error). *)
RECURSIVE from_str_loop(_, _, _)
from_str_loop(B, ps, i) ==
    IF IsSome(B.ret)
    THEN B
    ELSE IF i > Len(ps)
         THEN LET r == ExtXMediaBuilder_build(B.builder)
              IN  [B EXCEPT !.ret = Some(IF r.ok THEN r ELSE builder_error(r))]
         ELSE from_str_loop(from_str_arm(B, ps[i].key, ps[i].value), ps, i + 1)

(* from_str(input): the state the call ends in; its result is .ret. *)
ExtXMedia_from_str(ps) ==
    from_str_loop(FromStrState(ExtXMediaBuilder_default), ps, 1)

-----------------------------------------------------------------------------
(* <ExtXMedia as Display>::fmt.  The text is given as the attribute pairs   *)
(* it writes after the prefix, in the order it writes them.                 *)

(* crate::utils::quote: the text in double quotes. *)
quote(text) == Quoted(text)

(* An optional attribute is written when it is set, a flag when it is true. *)
fmt_option(key, o) == IF IsSome(o) THEN <<Pair(key, quote(Unwrap(o)))>> ELSE <<>>
fmt_flag(key, flag) == IF flag THEN <<Pair(key, Raw("YES"))>> ELSE <<>>

(* Faulty variant: a flag is always written, as YES or NO. *)
ExtXMedia_fmt_writing_every_flag(m) ==
    <<Pair("TYPE", Raw(m.media_type))>>
    \o fmt_option("URI", m.uri)
    \o <<Pair("GROUP-ID", quote(m.group_id))>>
    \o fmt_option("LANGUAGE", m.language)
    \o fmt_option("ASSOC-LANGUAGE", m.assoc_language)
    \o <<Pair("NAME", quote(m.name))>>
    \o <<Pair("DEFAULT", Raw(IF m.is_default THEN "YES" ELSE "NO"))>>
    \o <<Pair("AUTOSELECT", Raw(IF m.is_autoselect THEN "YES" ELSE "NO"))>>
    \o <<Pair("FORCED", Raw(IF m.is_forced THEN "YES" ELSE "NO"))>>
    \o fmt_option("INSTREAM-ID", m.instream_id)
    \o fmt_option("CHARACTERISTICS", m.characteristics)
    \o fmt_option("CHANNELS", m.channels)

ExtXMedia_fmt(m) ==
    <<Pair("TYPE", Raw(m.media_type))>>
    \o fmt_option("URI", m.uri)
    \o <<Pair("GROUP-ID", quote(m.group_id))>>
    \o fmt_option("LANGUAGE", m.language)
    \o fmt_option("ASSOC-LANGUAGE", m.assoc_language)
    \o <<Pair("NAME", quote(m.name))>>
    \o fmt_flag("DEFAULT", m.is_default)
    \o fmt_flag("AUTOSELECT", m.is_autoselect)
    \o fmt_flag("FORCED", m.is_forced)
    \o fmt_option("INSTREAM-ID", m.instream_id)
    \o fmt_option("CHARACTERISTICS", m.characteristics)
    \o fmt_option("CHANNELS", m.channels)

-----------------------------------------------------------------------------
(* The life of one EXT-X-MEDIA tag.  media.pc is "builder" while the        *)
(* builder is being filled, "built" after build, "parsed" after from_str,   *)
(* "new" after ExtXMedia::new and "set" once a set_ method has changed a    *)
(* made tag.                                                                *)

(* The derived setters of ExtXMediaBuilder: each stores its value in its    *)
(* field.                                                                   *)
MediaSetter(field, value) ==
    /\ media.pc = "builder"
    /\ media' = [media EXCEPT !.builder[field] = Some(value)]
    /\ UNCHANGED playlist

(* ExtXMediaBuilder::build called directly. *)
MediaBuild ==
    /\ media.pc = "builder"
    /\ media' = [media EXCEPT !.pc = "built",
                              !.result = Some(ExtXMediaBuilder_build(media.builder))]
    /\ UNCHANGED playlist

(* from_str(input) as one call: it makes its own builder. *)

(* ExtXMedia::new(media_type, group_id, name): no check is made. *)
ExtXMedia_new(media_type, group_id, name) ==
    [media_type |-> media_type, uri |-> None, group_id |-> group_id,
     language |-> None, assoc_language |-> None, name |-> name,
     is_default |-> FALSE, is_autoselect |-> FALSE, is_forced |-> FALSE,
     instream_id |-> None, characteristics |-> None, channels |-> None]

MediaNew(media_type, group_id, name) ==
    /\ media.pc = "builder"
    /\ media.builder = ExtXMediaBuilder_default
    /\ media' = [media EXCEPT !.pc = "new",
                    !.result = Some(Ok(ExtXMedia_new(media_type, group_id, name)))]
    /\ UNCHANGED playlist

(* A tag has been made and is held by the caller. *)
MediaMade ==
    /\ media.pc \in {"built", "parsed", "new", "set"}
    /\ IsSome(media.result)
    /\ Unwrap(media.result).ok

MediaTag == Unwrap(Unwrap(media.result).value)

(* ExtXMedia::set_media_type and ExtXMedia::set_instream_id: plain          *)
(* assignments to the made tag.                                             *)
MediaSetMediaType(value) ==
    /\ MediaMade
    /\ IsNone(media.version) /\ IsNone(media.text)
    /\ media' = [media EXCEPT !.pc = "set",
                    !.result = Some(Ok([MediaTag EXCEPT !.media_type = value]))]
    /\ UNCHANGED playlist

MediaSetInstreamId(value) ==
    /\ MediaMade
    /\ IsNone(media.version) /\ IsNone(media.text)
    /\ media' = [media EXCEPT !.pc = "set",
                    !.result = Some(Ok([MediaTag EXCEPT !.instream_id = value]))]
    /\ UNCHANGED playlist

(* required_version() is asked of the made tag. *)
MediaRequiredVersion ==
    /\ MediaMade
    /\ IsNone(media.version) /\ IsNone(media.text)
    /\ media' = [media EXCEPT !.version = Some(ExtXMedia_required_version(MediaTag))]
    /\ UNCHANGED playlist

(* to_string() is asked of the made tag. *)
MediaToString ==
    /\ MediaMade
    /\ IsNone(media.version) /\ IsNone(media.text)
    /\ media' = [media EXCEPT !.text = Some(ExtXMedia_fmt(MediaTag))]
    /\ UNCHANGED playlist

(* The attribute lists given to from_str: each known attribute absent or    *)
(* present with one of its values (one of them malformed), in the order     *)
(* Display writes them or in the reverse order, with up to MaxUnknown pairs *)
(* of an unknown name before and after (names are matched by case).        *)
MaxUnknown == 1

OneOf(key, values) == {<<>>} \cup {<<Pair(key, v)>> : v \in values}

RECURSIVE Reverse(_)
Reverse(ps) == IF ps = <<>> THEN <<>> ELSE Append(Reverse(Tail(ps)), Head(ps))

UnknownPairs(n, key, value) == [i \in 1..n |-> Pair(key, value)]

KnownAttributeLists ==
    { ty \o uri \o gid \o name \o def \o auto \o forced \o id :
        ty \in OneOf("TYPE", {Raw("AUDIO"), Raw("VIDEO"), Raw("SUBTITLES"),
                              Raw("CLOSED-CAPTIONS"), Raw("BOGUS")}),
        uri \in OneOf("URI", {Quoted("u")}),
        gid \in OneOf("GROUP-ID", {Quoted("g")}),
        name \in OneOf("NAME", {Quoted("n")}),
        def \in OneOf("DEFAULT", {Raw("YES"), Raw("NO")}),
        auto \in OneOf("AUTOSELECT", {Raw("YES"), Raw("NO")}),
        forced \in OneOf("FORCED", {Raw("YES"), Raw("NO"), Quoted("YES")}),
        id \in OneOf("INSTREAM-ID", {Quoted("CC1"), Quoted("SERVICE1")}) }

AttributeLists ==
    { UnknownPairs(before, "UNKNOWN", Raw("TAG"))
          \o (IF reversed THEN Reverse(ps) ELSE ps)
          \o UnknownPairs(after, "type", Raw("SUBTITLES")) :
        before \in 0..MaxUnknown, after \in 0..MaxUnknown,
        reversed \in BOOLEAN, ps \in KnownAttributeLists }

MediaFromStr ==
    /\ media.pc = "builder"
    /\ media.builder = ExtXMediaBuilder_default
    /\ \E ps \in AttributeLists :
           LET B == ExtXMedia_from_str(ps)
           IN  media' = [media EXCEPT !.pc = "parsed", !.input = ps,
                                      !.builder = B.builder, !.result = B.ret]
    /\ UNCHANGED playlist

(* The attribute lists of the order check: every list of up to             *)
(* MaxPairsOrder pairs over a few attributes, in any order and with         *)
(* repetitions.                                                             *)
MaxPairsOrder == 5

OrderPairs ==
    {Pair("TYPE", Raw("AUDIO")), Pair("TYPE", Raw("SUBTITLES")),
     Pair("TYPE", Raw("BOGUS")), Pair("URI", Quoted("u")),
     Pair("URI", Quoted("v")), Pair("GROUP-ID", Quoted("g")),
     Pair("NAME", Quoted("n"))}

OrderLists == UNION {[1..n -> OrderPairs] : n \in 0..MaxPairsOrder}

MediaFromStrAnyOrder ==
    /\ media.pc = "builder"
    /\ media.builder = ExtXMediaBuilder_default
    /\ \E ps \in OrderLists :
           LET B == ExtXMedia_from_str(ps)
           IN  media' = [media EXCEPT !.pc = "parsed", !.input = ps,
                                      !.builder = B.builder, !.result = B.ret]
    /\ UNCHANGED playlist

NextOrder ==
    \/ MediaFromStrAnyOrder

SpecOrder == Init /\ [][NextOrder]_vars

NextMedia ==
    \/ \E value \in MediaTypes : MediaSetter("media_type", value)
    \/ MediaSetter("uri", "u")
    \/ MediaSetter("group_id", "g")
    \/ MediaSetter("language", "en")
    \/ MediaSetter("assoc_language", "de")
    \/ MediaSetter("name", "n")
    \/ \E value \in BOOLEAN : MediaSetter("is_default", value)
    \/ \E value \in BOOLEAN : MediaSetter("is_autoselect", value)
    \/ \E value \in BOOLEAN : MediaSetter("is_forced", value)
    \/ \E value \in {"CC1", "CC4", "SERVICE1"} : MediaSetter("instream_id", value)
    \/ MediaSetter("characteristics", "c")
    \/ MediaSetter("channels", "6")
    \/ MediaBuild
    \/ MediaFromStr
    \/ \E media_type \in MediaTypes : MediaNew(media_type, "g", "n")
    \/ \E value \in MediaTypes : MediaSetMediaType(value)
    \/ \E value \in {None} \cup {Some(id) : id \in InStreamIds} :
           MediaSetInstreamId(value)
    \/ MediaRequiredVersion
    \/ MediaToString

SpecMedia == Init /\ [][NextMedia]_vars

-----------------------------------------------------------------------------
(* Under SpecMedia. *)

(* build has returned for the builder the setters filled; from_str has      *)
(* returned for the attribute list media.input.                             *)
MediaBuilt == media.pc = "built"
MediaParsed == media.pc = "parsed"
MediaFailed == ~Unwrap(media.result).ok

(* What the builder was given. *)
BuilderType(t) == media.builder.media_type = Some(t)
BuilderHas(field) == IsSome(media.builder[field])

(* What the attribute list gives: the values written for a key. *)
InputValues(key) ==
    {media.input[i].value : i \in {j \in 1..Len(media.input) :
                                       media.input[j].key = key}}
InputHas(key) == InputValues(key) /= {}
InputType(t) == InputValues("TYPE") = {Raw(t)}
InputFlag(key, text) == InputValues(key) = {Raw(text)}

(* The attribute list without the pairs of one key. *)
RECURSIVE WithoutKey(_, _)
WithoutKey(ps, key) ==
    IF ps = <<>> THEN <<>>
    ELSE IF Head(ps).key = key THEN WithoutKey(Tail(ps), key)
    ELSE <<Head(ps)>> \o WithoutKey(Tail(ps), key)

(* C24: a rendition tag built or parsed with type SUBTITLES and no URI is   *)
(* refused, one with type CLOSED-CAPTIONS and a URI is refused, and for     *)
(* AUDIO and VIDEO giving or leaving out the URI never changes whether the  *)
(* tag is made.                                                             *)
C24_UriRequiredOrForbiddenByType ==
    /\ MediaBuilt /\ BuilderType("SUBTITLES") /\ ~BuilderHas("uri") => MediaFailed
    /\ MediaBuilt /\ BuilderType("CLOSED-CAPTIONS") /\ BuilderHas("uri")
           => MediaFailed
    /\ MediaParsed /\ InputType("SUBTITLES") /\ ~InputHas("URI") => MediaFailed
    /\ MediaParsed /\ InputType("CLOSED-CAPTIONS") /\ InputHas("URI")
           => MediaFailed
    /\ MediaBuilt /\ (BuilderType("AUDIO") \/ BuilderType("VIDEO"))
           => /\ MediaFailed =
                     ~ExtXMediaBuilder_build(
                          [media.builder EXCEPT !.uri = None]).ok
              /\ MediaFailed =
                     ~ExtXMediaBuilder_build(
                          [media.builder EXCEPT !.uri = Some("u")]).ok
    /\ MediaParsed /\ (InputType("AUDIO") \/ InputType("VIDEO"))
           => MediaFailed =
                  ~Unwrap(ExtXMedia_from_str(
                              WithoutKey(media.input, "URI")).ret).ok

(* from_str has refused a SUBTITLES tag that has its group and name but no  *)
(* URI, for the missing URI.                                                *)
C24_Witness ==
    /\ MediaParsed
    /\ InputType("SUBTITLES")
    /\ ~InputHas("URI")
    /\ InputHas("GROUP-ID")
    /\ InputHas("NAME")
    /\ Unwrap(media.result) = builder_error(missing_attribute("URI"))

(* C25: a rendition tag built or parsed with type CLOSED-CAPTIONS and no    *)
(* in-stream identifier is refused, and one of any other type that has an   *)
(* in-stream identifier is refused.                                         *)
C25_InstreamIdOnlyForClosedCaptions ==
    /\ MediaBuilt /\ BuilderType("CLOSED-CAPTIONS") /\ ~BuilderHas("instream_id")
           => MediaFailed
    /\ MediaBuilt /\ BuilderHas("media_type") /\ ~BuilderType("CLOSED-CAPTIONS")
                  /\ BuilderHas("instream_id")
           => MediaFailed
    /\ MediaParsed /\ InputType("CLOSED-CAPTIONS") /\ ~InputHas("INSTREAM-ID")
           => MediaFailed
    /\ MediaParsed /\ (\E t \in MediaTypes \ {"CLOSED-CAPTIONS"} : InputType(t))
                   /\ InputHas("INSTREAM-ID")
           => MediaFailed

(* build has refused an AUDIO tag that has its group and name, for the      *)
(* in-stream identifier it was given.                                       *)
C25_Witness ==
    /\ MediaBuilt
    /\ BuilderType("AUDIO")
    /\ BuilderHas("group_id")
    /\ BuilderHas("name")
    /\ BuilderHas("instream_id")
    /\ Unwrap(media.result) = unexpected_attribute("INSTREAM-ID")

(* Construction has failed with the error of the DEFAULT / AUTOSELECT check. *)
RejectedByDefaultRule ==
    /\ MediaFailed
    /\ Unwrap(media.result).cause = custom_message.cause

(* C26: a rendition tag built or parsed with DEFAULT true and AUTOSELECT    *)
(* given as false is refused; in every other case (DEFAULT true with        *)
(* AUTOSELECT absent or true, DEFAULT false or absent) construction never   *)
(* fails with this check's error.                                           *)
C26_DefaultNeedsAutoselectNotFalse ==
    /\ MediaBuilt /\ media.builder.is_default = Some(TRUE)
                  /\ media.builder.is_autoselect = Some(FALSE)
           => MediaFailed
    /\ MediaBuilt /\ ~(/\ media.builder.is_default = Some(TRUE)
                       /\ media.builder.is_autoselect = Some(FALSE))
           => ~RejectedByDefaultRule
    /\ MediaParsed /\ InputFlag("DEFAULT", "YES") /\ InputFlag("AUTOSELECT", "NO")
           => MediaFailed
    /\ MediaParsed /\ ~(InputFlag("DEFAULT", "YES") /\ InputFlag("AUTOSELECT", "NO"))
           => ~RejectedByDefaultRule

(* from_str has refused an AUDIO tag with its group and name for            *)
(* DEFAULT=YES next to AUTOSELECT=NO.                                       *)
C26_Witness ==
    /\ MediaParsed
    /\ InputType("AUDIO")
    /\ InputHas("GROUP-ID")
    /\ InputHas("NAME")
    /\ InputFlag("DEFAULT", "YES")
    /\ InputFlag("AUTOSELECT", "NO")
    /\ RejectedByDefaultRule

(* C27: a rendition tag built or parsed with a type other than SUBTITLES    *)
(* and FORCED given, as YES or as NO, is refused; for SUBTITLES giving      *)
(* FORCED with either value never changes whether the tag is made.          *)
C27_ForcedOnlyForSubtitles ==
    /\ MediaBuilt /\ BuilderHas("media_type") /\ ~BuilderType("SUBTITLES")
                  /\ BuilderHas("is_forced")
           => MediaFailed
    /\ MediaBuilt /\ BuilderType("SUBTITLES")
           => MediaFailed =
                  ~ExtXMediaBuilder_build(
                       [media.builder EXCEPT !.is_forced = None]).ok
    /\ MediaParsed /\ (\E t \in MediaTypes \ {"SUBTITLES"} : InputType(t))
                   /\ InputHas("FORCED")
           => MediaFailed
    /\ MediaParsed /\ InputType("SUBTITLES")
                   /\ InputValues("FORCED") \subseteq {Raw("YES"), Raw("NO")}
           => MediaFailed =
                  ~Unwrap(ExtXMedia_from_str(
                              WithoutKey(media.input, "FORCED")).ret).ok

(* from_str has refused an AUDIO tag with its group and name for FORCED=NO. *)
C27_Witness ==
    /\ MediaParsed
    /\ InputType("AUDIO")
    /\ InputHas("GROUP-ID")
    /\ InputHas("NAME")
    /\ InputFlag("FORCED", "NO")
    /\ Unwrap(media.result) = builder_error(invalid_input_message)

(* The tag construction returned, if it returned one. *)
MediaValue == Unwrap(media.result).value

(* C28: building or parsing a rendition tag that lacks its type, its group  *)
(* identifier or its name fails and returns no tag value; a tag that is     *)
(* returned has the three as they were given.                               *)
C28_TypeGroupIdNameRequired ==
    /\ MediaBuilt /\ (\/ ~BuilderHas("media_type")
                      \/ ~BuilderHas("group_id")
                      \/ ~BuilderHas("name"))
           => MediaFailed /\ MediaValue = None
    /\ MediaParsed /\ (\/ ~InputHas("TYPE")
                       \/ ~InputHas("GROUP-ID")
                       \/ ~InputHas("NAME"))
           => MediaFailed /\ MediaValue = None
    /\ (MediaBuilt \/ MediaParsed) /\ ~MediaFailed
           => /\ Some(Unwrap(MediaValue).media_type) = media.builder.media_type
              /\ Some(Unwrap(MediaValue).group_id) = media.builder.group_id
              /\ Some(Unwrap(MediaValue).name) = media.builder.name

(* from_str has refused an AUDIO tag with a group identifier and no name,   *)
(* for the name build found unset.                                          *)
C28_Witness ==
    /\ MediaParsed
    /\ InputType("AUDIO")
    /\ InputHas("GROUP-ID")
    /\ ~InputHas("NAME")
    /\ Unwrap(media.result) = builder_error(Err("uninitialized_field", "name"))

(* The attribute names from_str knows. *)
AttributeNames ==
    {"TYPE", "URI", "GROUP-ID", "LANGUAGE", "ASSOC-LANGUAGE", "NAME", "DEFAULT",
     "AUTOSELECT", "FORCED", "INSTREAM-ID", "CHARACTERISTICS", "CHANNELS"}

(* The attribute list without the pairs of an unrecognized name. *)
RECURSIVE Recognized(_)
Recognized(ps) ==
    IF ps = <<>> THEN <<>>
    ELSE IF Head(ps).key \in AttributeNames
         THEN <<Head(ps)>> \o Recognized(Tail(ps))
         ELSE Recognized(Tail(ps))

(* C29: what from_str returns for an attribute list, a tag or an error, is  *)
(* what it returns for the list without the pairs of unrecognized names.    *)
C29_UnknownAttributesIgnored ==
    MediaParsed => media.result = ExtXMedia_from_str(Recognized(media.input)).ret

(* from_str has returned a tag for a list that holds a pair with an         *)
(* unrecognized name.                                                       *)
C29_Witness ==
    /\ MediaParsed
    /\ Recognized(media.input) /= media.input
    /\ ~MediaFailed

(* required_version() has been asked of the made tag. *)
MediaVersioned == IsSome(media.version)

(* C30: the version an EXT-X-MEDIA tag requires is 1 when it has no         *)
(* in-stream identifier or one of CC1..CC4 and 7 for every other            *)
(* identifier, and the same tag with any other field changed requires the   *)
(* same version.                                                            *)
C30_VersionByInstreamIdOnly ==
    MediaVersioned =>
        /\ (\/ MediaTag.instream_id = None
            \/ MediaTag.instream_id \in {Some("CC1"), Some("CC2"),
                                         Some("CC3"), Some("CC4")})
               => media.version = Some(1)
        /\ (/\ MediaTag.instream_id /= None
            /\ MediaTag.instream_id \notin {Some("CC1"), Some("CC2"),
                                            Some("CC3"), Some("CC4")})
               => media.version = Some(7)
        /\ \A t \in MediaTypes, u \in {None, Some("u")}, f \in BOOLEAN :
               Some(ExtXMedia_required_version(
                        [MediaTag EXCEPT !.media_type = t, !.uri = u,
                                         !.channels = u, !.language = u,
                                         !.is_default = f, !.is_autoselect = f,
                                         !.is_forced = f]))
                   = media.version

(* A built CLOSED-CAPTIONS tag with a SERVICE identifier was asked its      *)
(* version and answered 7.                                                  *)
C30_Witness ==
    /\ MediaVersioned
    /\ MediaTag.media_type = "CLOSED-CAPTIONS"
    /\ MediaTag.instream_id = Some("SERVICE1")
    /\ media.version = Some(7)

(* to_string() has been asked of the made tag. *)
MediaRendered == IsSome(media.text)

(* The values the rendered text gives for a key. *)
TextValues(key) ==
    {Unwrap(media.text)[i].value :
         i \in {j \in 1..Len(Unwrap(media.text)) : Unwrap(media.text)[j].key = key}}

(* C31: the text of a tag build accepted parses to an equal tag; the text   *)
(* holds DEFAULT, AUTOSELECT or FORCED exactly when the flag is true, as    *)
(* YES; and a parsed list without the flag gives a tag with the flag false. *)
C31_RoundTrip ==
    /\ MediaRendered /\ media.pc = "built"
           => /\ ExtXMedia_from_str(Unwrap(media.text)).ret = Some(Ok(MediaTag))
              /\ TextValues("DEFAULT")
                     = (IF MediaTag.is_default THEN {Raw("YES")} ELSE {})
              /\ TextValues("AUTOSELECT")
                     = (IF MediaTag.is_autoselect THEN {Raw("YES")} ELSE {})
              /\ TextValues("FORCED")
                     = (IF MediaTag.is_forced THEN {Raw("YES")} ELSE {})
    /\ MediaParsed /\ ~MediaFailed
           => /\ ~InputHas("DEFAULT") => ~MediaTag.is_default
              /\ ~InputHas("AUTOSELECT") => ~MediaTag.is_autoselect
              /\ ~InputHas("FORCED") => ~MediaTag.is_forced

(* A built SUBTITLES tag with DEFAULT true and FORCED false has been        *)
(* rendered: the text has DEFAULT and no FORCED.                            *)
C31_Witness ==
    /\ MediaRendered
    /\ media.pc = "built"
    /\ MediaTag.media_type = "SUBTITLES"
    /\ media.builder.is_forced = Some(FALSE)
    /\ MediaTag.is_default
    /\ TextValues("DEFAULT") = {Raw("YES")}
    /\ TextValues("FORCED") = {}

(* The rendition rules as they read on a tag value: a URI for SUBTITLES and *)
(* none for CLOSED-CAPTIONS, an in-stream identifier exactly for            *)
(* CLOSED-CAPTIONS, FORCED only for SUBTITLES.  (An unset AUTOSELECT is     *)
(* false in the value, so the DEFAULT rule cannot be read off it.)          *)
SatisfiesRenditionRules(m) ==
    /\ m.media_type = "SUBTITLES" => IsSome(m.uri)
    /\ m.media_type = "CLOSED-CAPTIONS" => IsNone(m.uri)
    /\ IsSome(m.instream_id) <=> m.media_type = "CLOSED-CAPTIONS"
    /\ m.is_forced => m.media_type = "SUBTITLES"

-----------------------------------------------------------------------------
(* Under SpecOrder. *)

(* The list with pairs i and i+1 exchanged. *)
SwapAt(ps, i) ==
    [j \in 1..Len(ps) |-> IF j = i THEN ps[i + 1] ELSE IF j = i + 1 THEN ps[i]
                          ELSE ps[j]]

(* The list with only the last pair of every name. *)
RECURSIVE LastOccurrences(_)
LastOccurrences(ps) ==
    IF ps = <<>> THEN <<>>
    ELSE IF \E j \in 2..Len(ps) : ps[j].key = Head(ps).key
         THEN LastOccurrences(Tail(ps))
         ELSE <<Head(ps)>> \o LastOccurrences(Tail(ps))

(* What from_str makes of a list: accepted or not, and the tag. *)
Outcome(ps) ==
    LET r == Unwrap(ExtXMedia_from_str(ps).ret)
    IN  [ok |-> r.ok, value |-> r.value]

-----------------------------------------------------------------------------
(* Under SpecRange. *)

(* Every open-ended range of the list directly follows a segment of the     *)
(* same URI that has a byte range, with or without a start.                 *)
EveryOpenEndedFollowsRange(segs) ==
    \A n \in 1..Len(segs) :
        OpenEnded(segs[n]) =>
            n > 1 /\ HasRange(segs[n - 1]) /\ segs[n - 1].uri = segs[n].uri

(* last_range_uri after the loop has passed the first k segments. *)
RECURSIVE LastRangeUriAfter(_, _)
LastRangeUriAfter(segs, k) ==
    IF k = 0
    THEN None
    ELSE byte_range_check(segs[k], LastRangeUriAfter(segs, k - 1)).last

(* C34: wherever the byte-range check has passed the first k segments, the  *)
(* remembered URI is absent or the URI of segment k; so validation accepts  *)
(* a list exactly when every open-ended range directly follows a segment    *)
(* of the same URI that carries a byte range (chains of open-ended ranges   *)
(* pass, a segment without byte range breaks the chain).                    *)
C34_RangeChain ==
    ValidationReached =>
        LET segs == Unwrap(builder.segments)
        IN  /\ \A k \in 1..Len(segs) :
                   EveryOpenEndedFollowsRange(SubSeq(segs, 1, k))
                       => LastRangeUriAfter(segs, k) \in {None, Some(segs[k].uri)}
            /\ Unwrap(result).ok <=> EveryOpenEndedFollowsRange(segs)

(* build has accepted three segments of one URI: an explicit start followed *)
(* by two open-ended ranges.                                                *)
C34_Witness ==
    /\ ValidationReached
    /\ Unwrap(result).ok
    /\ Len(Unwrap(builder.segments)) = 3
    /\ ExplicitStart(Unwrap(builder.segments)[1])
    /\ OpenEnded(Unwrap(builder.segments)[2])
    /\ OpenEnded(Unwrap(builder.segments)[3])

-----------------------------------------------------------------------------
(* Under SpecDur. *)

(* The builder with another tolerance. *)
WithTolerance(b, e) == [b EXCEPT !.allowable_excess_duration = Some(e)]

DurationGe(a, b) == ~DurationGt(b, a)

(* The result is the error of the duration check. *)
RejectedForDuration(r) == ~r.ok /\ r.cause = "custom"

(* Two results that differ at most in the tolerance the playlist records. *)
SameButTolerance(r1, r2) ==
    IF r1.ok /\ r2.ok
    THEN [Unwrap(r1.value) EXCEPT !.allowable_excess_duration = from_secs(0)]
             = [Unwrap(r2.value) EXCEPT !.allowable_excess_duration = from_secs(0)]
    ELSE ~r1.ok /\ ~r2.ok /\ r1.kind = r2.kind /\ r1.cause = r2.cause

(* r is the result with the tolerance of builder b, r2 the result of the    *)
(* same call with tolerance e.                                              *)
MonotoneInTolerance(b, e, r, r2) ==
    /\ r.ok /\ DurationGe(e, ExcessOf(b)) => r2.ok
    /\ RejectedForDuration(r) /\ DurationGe(ExcessOf(b), e) => ~r2.ok
    /\ SameButTolerance(r, r2) \/ RejectedForDuration(r) \/ RejectedForDuration(r2)

(* C35: a segment list or document accepted with tolerance E is accepted    *)
(* with every larger tolerance, one rejected for an over-long segment with  *)
(* E is rejected with every smaller tolerance, and two tolerances give the  *)
(* same result unless one of the results is the duration error.             *)
C35_MonotoneInTolerance ==
    /\ pc = "built" =>
           \A e \in ExcessDurations :
               MonotoneInTolerance(builder, e, Unwrap(result),
                                   build(WithTolerance(builder, e)))
    /\ Returned =>
           \A e \in ExcessDurations :
               MonotoneInTolerance(entry, e, Unwrap(result),
                   Unwrap(parse_media_playlist(lines, WithTolerance(entry, e)).ret))

(* A document with a segment of 9.509 seconds and target duration 8 was     *)
(* rejected with tolerance 1 second; with 2 seconds it is accepted.         *)
C35_Witness ==
    /\ pc = "returned_after_loop"
    /\ entry.allowable_excess_duration = Some(from_secs(1))
    /\ RejectedForDuration(Unwrap(result))
    /\ Unwrap(parse_media_playlist(lines, WithTolerance(entry, from_secs(2))).ret).ok
-----------------------------------------------------------------------------
(* SpecRepeat: documents in which every document-level and every            *)
(* segment-scoped tag kind can occur several times, with two values where   *)
(* the tag carries one.                                                     *)
MaxLinesRepeat == 4

NextRepeat ==
    \/ IsNone(builder.target_duration_tag) /\ SetTargetDurationTag(from_secs(10))
    \/ IsSome(builder.target_duration_tag) /\ Parse
    \/ FirstTag(M3u)
    \/ \E t \in TargetDurations : More(MaxLinesRepeat) /\ ExtXTargetDuration(t)
    \/ \E t \in {0, 7} : More(MaxLinesRepeat) /\ ExtXMediaSequence(t)
    \/ \E t \in DiscontinuitySequences :
          More(MaxLinesRepeat) /\ ExtXDiscontinuitySequence(t)
    \/ More(MaxLinesRepeat) /\ ExtXEndList
    \/ \E t \in {"VOD", "EVENT"} : More(MaxLinesRepeat) /\ ExtXPlaylistType(t)
    \/ More(MaxLinesRepeat) /\ ExtXIFramesOnly
    \/ More(MaxLinesRepeat) /\ ExtXIndependentSegments
    \/ \E t \in {"0.0", "1.5"} : More(MaxLinesRepeat) /\ ExtXStart(t)
    \/ \E t \in {Duration(9, 9000000), Duration(3, 3000000)} :
          More(MaxLinesRepeat) /\ ExtInf(t)
    \/ \E t \in ByteRangeTags : More(MaxLinesRepeat) /\ ExtXByteRange(t)
    \/ \E u \in {"init.mp4", "init2.mp4"} :
          More(MaxLinesRepeat) /\ ExtXMap([uri |-> u, keys |-> <<>>])
    \/ \E t \in {"2010-02-19T14:54:23Z", "2010-02-19T14:54:33Z"} :
          More(MaxLinesRepeat) /\ ExtXProgramDateTime(t)
    \/ \E t \in {"r1", "r2"} : More(MaxLinesRepeat) /\ ExtXDateRange(t)
    \/ More(MaxLinesRepeat) /\ Uri("a.ts")
    \/ EndOfInput

SpecRepeat == Init /\ [][NextRepeat]_vars

(* Under SpecRepeat. *)

(* The segment-scoped tag kinds that carry a value. *)
ValuedSegmentTagNames ==
    {"ExtInf", "ExtXByteRange", "ExtXMap", "ExtXProgramDateTime", "ExtXDateRange"}

(* The field of the finalized segment s that the segment-scoped tag `name`  *)
(* is stored in (the duration is mandatory, the others are optional).       *)
SegmentField(s, name) ==
    CASE name = "ExtInf" -> Some(s.inf_tag)
      [] name = "ExtXByteRange" -> s.byte_range_tag
      [] name = "ExtXDiscontinuity" -> s.discontinuity_tag
      [] name = "ExtXMap" -> s.map_tag
      [] name = "ExtXProgramDateTime" -> s.program_date_time_tag
      [] name = "ExtXDateRange" -> s.date_range_tag

(* The lines of ls from line `from` to line `to` that hold a tag `name`. *)
Occurrences(ls, name, from, to) == {i \in from..to : IsTag(ls[i], name)}

Last(S) == CHOOSE i \in S : \A j \in S : j <= i

(* The value tag `name` leaves in its field: the map tag is stored with the *)
(* keys in force, every other tag as it was read.                           *)
Stored(name, t) == IF name = "ExtXMap" THEN [t EXCEPT !.keys = available_key_tags] ELSE t

(* The lines after the URI line of segment k - 1 and before the one of      *)
(* segment k.                                                               *)
FirstLineOf(ls, k) == IF k = 1 THEN 2 ELSE UriPosition(ls, k - 1, 1) + 1
LastLineOf(ls, k) == UriPosition(ls, k, 1) - 1

(* Field by field, b holds the last occurrence in ls of every document-     *)
(* level tag kind that occurs in ls.                                        *)
HoldsLastDocumentTags(b, ls) ==
    \A name \in DocumentLevelTagNames :
        LET o == Occurrences(ls, name, 2, Len(ls))
        IN  o /= {} => BuilderField(b, name) = Some(ls[Last(o)].v)

(* Segment k of sgs holds the last occurrence, among the lines of ls that   *)
(* belong to it, of every valued segment-scoped tag kind that occurs there. *)
HoldsLastSegmentTags(sgs, ls) ==
    \A k \in 1..Len(sgs) : \A name \in ValuedSegmentTagNames :
        LET o == Occurrences(ls, name, FirstLineOf(ls, k), LastLineOf(ls, k))
        IN  o /= {} => SegmentField(sgs[k], name) = Some(Stored(name, ls[Last(o)].v))

(* Line n of ls repeats a tag kind: an earlier line of the document, or of  *)
(* the same segment for a segment-scoped kind, holds the same kind.         *)
Repeats(ls, n) ==
    /\ n > 2
    /\ ls[n].line = "Tag"
    /\ \/ /\ ls[n].tag \in DocumentLevelTagNames
          /\ Occurrences(ls, ls[n].tag, 2, n - 1) /= {}
       \/ /\ ls[n].tag \in ValuedSegmentTagNames
          /\ \E i \in Occurrences(ls, ls[n].tag, 2, n - 1) :
                \A m \in i..(n - 1) : ~IsUri(ls[m])

-----------------------------------------------------------------------------
(* SpecPush: segments are pushed onto the builder, which is then built or   *)
(* used for a parse.  The pushed segments include one that is too long for  *)
(* the target duration.                                                     *)
MaxPushedPush == 2
MaxLinesPush == 4

PushSegments ==
    {Segment(d, None, u) : d \in {Duration(3, 3000000), Duration(12, 0)},
                           u \in {"a.ts", "p.ts"}}

NextPush ==
    \/ IsNone(builder.target_duration_tag) /\ SetTargetDurationTag(from_secs(10))
    \/ \E s \in PushSegments : Pushed(MaxPushedPush) /\ PushSegment(s)
    \/ Build
    \/ Parse
    \/ FirstTag(M3u)
    \/ More(MaxLinesPush) /\ ExtXTargetDuration(from_secs(8))
    \/ \E d \in {Duration(3, 3000000), Duration(9, 9000000)} :
          More(MaxLinesPush) /\ ExtInf(d)
    \/ More(MaxLinesPush) /\ Uri("a.ts")
    \/ EndOfInput

SpecPush == Init /\ [][NextPush]_vars

(* Under SpecPush. *)

(* The segments pushed onto builder b so far. *)
PushedOnto(b) == IF IsSome(b.segments) THEN Unwrap(b.segments) ELSE <<>>

(* push_segment called on b with ss[1], ..., ss[Len(ss)] in that order. *)
RECURSIVE PushAll(_, _)
PushAll(b, ss) ==
    IF ss = <<>> THEN b ELSE PushAll(push_segment(b, Head(ss)), Tail(ss))

(* A step of the builder that changes its segment list. *)
PushStep ==
    (pc = "builder" /\ pc' = "builder" /\ builder'.segments /= builder.segments)
    => /\ \E s \in PushSegments :
              builder'.segments = Some(Append(PushedOnto(builder), s))
       /\ DocumentLevel(builder') = DocumentLevel(builder)

(* Calling push_segment on b with the segments of ss in order gives b with  *)
(* the list ss, whether b had no list or an empty one.                      *)
PushedInOrder(b, ss) ==
    /\ PushAll([b EXCEPT !.segments = None], ss)
           = [b EXCEPT !.segments = IF ss = <<>> THEN None ELSE Some(ss)]
    /\ PushAll([b EXCEPT !.segments = Some(<<>>)], ss) = [b EXCEPT !.segments = Some(ss)]

\* C37: push_segment appends: calling it with s1..sn in that order on a
\* builder with no segments leaves the segment list [s1..sn], and each call
\* leaves every other builder field unchanged.  A later parse on that builder
\* replaces the whole segment list with the segments of the parsed document:
\* the call returns what it returns on the builder without the pushed
\* segments, and the playlist and the builder hold the parsed segments only.
C37_PushAppendsParseReplaces ==
    [][ /\ PushStep
        /\ pc' = "builder" =>
              /\ PushedInOrder(builder', PushedOnto(builder'))
              /\ \A s \in PushSegments :
                    push_segment(builder', s)
                        = [builder' EXCEPT !.segments = Some(Append(PushedOnto(builder'), s))]
        /\ pc' \in {"returned_in_loop", "returned_after_loop"} =>
              result' = parse_media_playlist(lines', [entry' EXCEPT !.segments = None]).ret
        /\ (pc' = "returned_after_loop" /\ Unwrap(result').ok) =>
              /\ Unwrap(Unwrap(result').value).segments = segments'
              /\ builder'.segments = Some(segments')
              /\ Len(segments') = Cardinality({i \in 1..Len(lines') : IsUri(lines'[i])})
      ]_vars

(* Two different segments were pushed, the second too long for the target   *)
(* duration, and the builder then parsed a document of one segment: the     *)
(* playlist has that segment only.                                          *)
C37_Witness ==
    /\ ParsedOk
    /\ IsSome(entry.segments)
    /\ Len(Unwrap(entry.segments)) = 2
    /\ Unwrap(entry.segments)[1] /= Unwrap(entry.segments)[2]
    /\ Unwrap(entry.segments)[2].inf_tag = Duration(12, 0)
    /\ Len(Parsed.segments) = 1
    /\ Parsed.segments[1] \notin Range(Unwrap(entry.segments))
-----------------------------------------------------------------------------
(* SpecLeak: documents of several segments in which every segment-scoped    *)
(* tag kind, and a key tag, can stand before any URI line.                  *)
MaxLinesLeak == 6

NextLeak ==
    \/ IsNone(builder.target_duration_tag) /\ SetTargetDurationTag(from_secs(10))
    \/ IsSome(builder.target_duration_tag) /\ Parse
    \/ FirstTag(M3u)
    \/ More(MaxLinesLeak) /\ ExtInf(Duration(9, 9000000))
    \/ More(MaxLinesLeak) /\ ExtXByteRange(ByteRange(100, Some(0)))
    \/ More(MaxLinesLeak) /\ ExtXDiscontinuity
    \/ More(MaxLinesLeak) /\ ExtXKey(Key("A", "k1"))
    \/ More(MaxLinesLeak) /\ ExtXMap([uri |-> "init.mp4", keys |-> <<>>])
    \/ More(MaxLinesLeak) /\ ExtXProgramDateTime("2010-02-19T14:54:23Z")
    \/ More(MaxLinesLeak) /\ ExtXDateRange("r1")
    \/ More(MaxLinesLeak) /\ Uri("a.ts")
    \/ EndOfInput

SpecLeak == Init /\ [][NextLeak]_vars

(* Under SpecLeak. *)

(* The field of the pending segment s that tag `name` is stored in. *)
PendingField(s, name) == IF name = "ExtInf" THEN s.inf_tag ELSE SegmentField(s, name)

(* What the lines from..to of ls leave in the field of tag `name`: the      *)
(* last occurrence among them, nothing if there is none.                    *)
FromLines(ls, name, from, to) ==
    LET o == Occurrences(ls, name, from, to)
    IN  IF o = {} THEN None ELSE Some(Stored(name, ls[Last(o)].v))

(* The line of the last URI line of ls (1, the start marker, if none). *)
LastUriLine(ls) ==
    LET u == {i \in 1..Len(ls) : IsUri(ls[i])}
    IN  IF u = {} THEN 1 ELSE Last(u)

(* Every segment-scoped field of every finalized segment, and of the        *)
(* pending one, is what the tag lines between its own URI line and the one  *)
(* before it leave there.                                                   *)
FieldsFromOwnLines(sgs, pending, ls) ==
    /\ \A k \in 1..Len(sgs) : \A name \in SegmentScopedTagNames :
          SegmentField(sgs[k], name)
              = FromLines(ls, name, FirstLineOf(ls, k), LastLineOf(ls, k))
    /\ \A name \in SegmentScopedTagNames :
          PendingField(pending, name)
              = FromLines(ls, name, LastUriLine(ls) + 1, Len(ls))

(* A step that reads a URI line. *)
UriStep ==
    (pc = "parsing" /\ Len(lines') = Len(lines) + 1 /\ IsUri(lines'[Len(lines')]))
    => /\ available_key_tags' = available_key_tags
       /\ has_discontinuity_tag' = has_discontinuity_tag
       /\ IF IsNone(segment.inf_tag)
          THEN pc' = "returned_in_loop" /\ ~Unwrap(result').ok
          ELSE /\ pc' = "parsing"
               /\ segment' = EmptySegment
               /\ has_partial_segment' = FALSE
               /\ Len(segments') = Len(segments) + 1

\* C38: segment-scoped tags do not leak across segments: the duration,
\* byte-range, discontinuity, map, program-date-time and date-range fields of
\* the k-th segment come only from the tag lines after the (k-1)-th URI line
\* and before the k-th one (a URI line with no duration tag of its own is
\* refused), the pending segment is reset to empty at every URI line, and a
\* URI line leaves the rolling key set and the document-wide discontinuity
\* flag as they are.
C38_NoLeakAcrossSegments ==
    [][ /\ UriStep
        /\ pc' = "parsing" => FieldsFromOwnLines(segments', segment', lines')
        /\ (pc' = "returned_after_loop" /\ Unwrap(result').ok) =>
              FieldsFromOwnLines(Unwrap(Unwrap(result').value).segments,
                                 EmptySegment, lines')
      ]_vars

(* An accepted document of two segments: the first follows a              *)
(* discontinuity marker, the second has only its duration, and the          *)
(* document-wide flag is still set at the end.                              *)
C38_Witness ==
    /\ ParsedOk
    /\ Len(Parsed.segments) = 2
    /\ IsSome(Parsed.segments[1].discontinuity_tag)
    /\ \A name \in SegmentScopedTagNames \ {"ExtInf"} :
          IsNone(SegmentField(Parsed.segments[2], name))
    /\ has_discontinuity_tag
====
